---------------------------- MODULE Spec2Model ----------------------------
(***************************************************************************)
(* A model of the xctestrunner test-execution engine:                      *)
(*   - XcodebuildTestExecutor.Execute with its reader loop, the            *)
(*     CheckXcodebuildStuckThread watchdog and the child process           *)
(*     (test_runner/xcodebuild_test_executor.py): specification Spec;      *)
(*   - the sub-commands `test` and `simulator_test` with the retry loop of *)
(*     _RunSimulatorTest and the simulators it creates, shuts down and     *)
(*     deletes (test_runner/ios_test_runner.py): specification SpecSession;*)
(*   - one XctestSession object, its work and output directories, Prepare  *)
(*     and Close (test_runner/xctest_session.py): specification SpecDirs;  *)
(*   - one Simulator object with its cached fields and the simulator on    *)
(*     disk (simulator_control/simulator_util.py): specification SpecSim.  *)
(***************************************************************************)
EXTENDS Integers, Sequences, FiniteSets, TLC

(***************************************************************************)
(* Program constants.                                                      *)
(***************************************************************************)
\* test_runner/runner_exit_codes.py, EXITCODE
SUCCEEDED == 0
ERROR == 1
UNKNOWN == 10
FAILED == 11
TEST_NOT_START == 12
NEED_REBOOT_DEVICE == 13
NEED_RECREATE_SIM == 14
SIM_ERROR == 15
EXITCODE == {SUCCEEDED, ERROR, UNKNOWN, FAILED, TEST_NOT_START,
             NEED_REBOOT_DEVICE, NEED_RECREATE_SIM, SIM_ERROR}

\* shared/ios_constants.py
IPHONEOS == "iphoneos"
IPHONESIMULATOR == "iphonesimulator"
SUPPORTED_SDKS == {IPHONESIMULATOR, IPHONEOS}
XCUITEST == "xcuitest"
XCTEST == "xctest"
LOGIC_TEST == "logic_test"
SUPPORTED_TEST_TYPES == {XCUITEST, XCTEST, LOGIC_TEST}

\* test_runner/xcodebuild_test_executor.py
SIM_TEST_MAX_ATTEMPTS == 3
DEVICE_TEST_MAX_ATTEMPTS == 2
\* test_runner/ios_test_runner.py, max_attempts of _RunSimulatorTest
PLANNER_MAX_ATTEMPTS == 3

(***************************************************************************)
(* Bounds of the model.                                                    *)
(***************************************************************************)
\* lines one child writes before it exits or hangs
MaxLines == 2
\* lines the pipe holds between the child and the reader
PipeCap == 1
\* the startup timeout, in clock ticks
StartupTimeout == 1
\* the number of Prepare calls made on one XctestSession
MaxPrepares == 3
\* successive Close calls made on one XctestSession
MaxCloses == 2
\* the number of RunTest calls made on one XctestSession
MaxRunTests == 1

\* not an exit code: Execute has not returned / the for loop continues
NoCode == 0 - 1
RELAUNCH == 0 - 2
\* not an exit code: an exception leaves Execute
RAISED == 0 - 3
\* _xcode_version_number = None
NoVersionNumber == 0 - 4

(***************************************************************************)
(* The child's output.  A line is named by the texts it contains; the     *)
(* predicates below are the substring tests the code makes on a line or   *)
(* on the whole captured output.                                           *)
(***************************************************************************)
SignalLines == {"plain", "suite", "suite_succ", "runner", "succ", "fail",
                "succ_fail"}
DeviceErrorLines == {"dev_lost", "dev_toomany"}
SimErrorLines == {"sim_background", "sim_recreate", "sim_exited",
                  "sim_interrupted"}
ErrorLines == DeviceErrorLines \cup SimErrorLines

\* ios_constants.TEST_STARTED_SIGNAL in stdout_line
HasTestStartedSignal(line) == line \in {"suite", "suite_succ"}
\* ios_constants.XCTRUNNER_STARTED_SIGNAL in stdout_line
HasRunnerStartedSignal(line) == line = "runner"
\* self._succeeded_signal in stdout_line
HasSucceededSignal(line) == line \in {"succ", "suite_succ", "succ_fail"}
\* self._failed_signal in stdout_line
HasFailedSignal(line) == line \in {"fail", "succ_fail"}

LinesFor(s) ==
  SignalLines \cup (IF s = IPHONEOS THEN DeviceErrorLines ELSE SimErrorLines)

VARIABLES
  \* XcodebuildTestExecutor.Execute
  sdk,            \* self._sdk
  test_type,      \* self._test_type
  return_output,  \* Execute's argument
  pc,             \* the reader's position in Execute
  i,              \* the attempt index of Execute's for loop
  test_started, test_succeeded, test_failed,
  output,         \* the error texts held by the output buffer
  stdout_line,    \* the line read and not yet written to sys.stdout
  exit_code,      \* Execute's result, NoCode until it returns
  decided_by,     \* which branch produced exit_code
  launches,       \* the number of subprocess.Popen calls made
  scanned,        \* lines of the current child tested for the signals
  written,        \* lines of the current child given to sys.stdout.write
  \* the child process and its pipe
  process,        \* the current child: none, running, exited, terminated
  live,           \* the number of children launched and not yet ended
  pipe,           \* lines written by the child and not yet read
  emitted,        \* lines written by the current child
  \* CheckXcodebuildStuckThread
  wd_pc,          \* the watchdog thread's position in run()
  wd_terminate,   \* self._terminate
  wd_stuck,       \* self._is_xcodebuild_stuck
  elapsed,        \* time.time() - start_time, in ticks, capped
  \* history of the current attempt
  signal_in_time, \* a signal that cancels the watchdog was read in time
  exit_in_time,   \* the child exited by itself within the timeout
  relaunched_on,  \* the last relaunch: none, interrupted (text seen), other
  \* the sub-commands `test` and `simulator_test` (ios_test_runner.py)
  command,        \* the sub-command run
  legacy_xcode,   \* xcode_info_util.GetXcodeVersionNumber() < 900
  s_pc,           \* the position in _Test / _RunSimulatorTest
  attempt,        \* the index i of the loop of _RunSimulatorTest
  reboot_sim,     \* reboot_sim
  simulator_id,   \* simulator_id, 0 before the first simulator is created
  created,        \* the simulators created by CreateNewSimulator
  shut,           \* the simulators on which Shutdown() has returned
  deleted,        \* the simulators on which Delete() has been called
  pending,        \* what leaves the try block: continue, return or an error
  session_exit,   \* the value the sub-command returns, NoCode before
  \* an XctestSession object and the directories on disk (xctest_session.py)
  work_dir_arg,   \* the work_dir given to __init__, "None" when not given
  output_dir_arg, \* the output_dir given to __init__, "None" when not given
  work_dir,       \* self._work_dir
  delete_work_dir,    \* self._delete_work_dir
  output_dir,     \* self._output_dir
  delete_output_dir,  \* self._delete_output_dir
  prepared,       \* self._prepared
  dirs,           \* the directories that exist on disk
  existed,        \* the caller's directories that have existed
  mkdtemps,       \* the number of tempfile.mkdtemp() calls made
  prepares,       \* the number of Prepare calls made
  streak,         \* successive Prepare calls that returned, Close not called
  once,           \* the session's fields after the first call of a streak
  last_op,        \* the last operation: new, Prepare, PrepareRaised, Close,
                  \* CloseRaised
  closes,         \* successive Close calls, counted from the last Prepare
  xctestrun_obj,      \* self._xctestrun_obj is set
  dummy_project_obj,  \* self._dummy_project_obj is set
  logic_test_bundle,  \* self._logic_test_bundle is set
  raised,         \* the error the last operation raised, none if it returned
  args,           \* <<PrepareCase of the arguments>> when Prepare was the
                  \* last operation
  runs,           \* the number of RunTest calls made
  \* a Simulator object and the simulator on disk (simulator_util.py)
  o_simulator_id, \* self._simulator_id: "ID" or "None"
  root_dir,       \* self._simulator_root_dir is set
  log_root_dir,   \* self._simulator_log_root_dir is set
  plist_object,   \* self._device_plist_object is set
  plist_exists,   \* device.plist exists under the simulator's root directory
  state_num,      \* the field `state` of device.plist
  log_dir,        \* the simulator's log directory exists
  delete_running, \* a `simctl delete` started by Delete has not finished
  sim_op,         \* the last operation called on the object
  sim_result,     \* what it returned, or the error it raised
  sim_deleted,    \* Delete has returned on the object
  sim_prev,       \* the operation called before the last one and its result
  sim_cmd,        \* the last operation ran `simctl shutdown`
  sim_seen,       \* how the last Shutdown learnt of state SHUTDOWN: state
                  \* (read from device.plist), text (the error text of
                  \* `simctl shutdown`), or none
  \* one call of CreateNewSimulator (simulator_util.py)
  delete_checks_state, \* Delete is the one that tests the state first
  create_pc,      \* where the call is: create, wait, delete, done, idle
  create_i,       \* the loop variable i
  new_simulators, \* the simulators created so far, in order
  creates,        \* the number of create commands issued
  create_runs,    \* the number of times `simctl create` was executed
  polls_left,     \* state checks left in the current wait window
  create_result,  \* none, returned, or the error raised
  new_simulator_id, \* the position of the simulator returned, 0 if none
  \* one call of RunSimctlCommand (simulator_util.py)
  simctl_pc,      \* run, done, or idle
  simctl_i,       \* the loop variable i
  simctl_runs,    \* the runs of the command made so far: what each wrote
                  \* to stdout and stderr and its exit status
  simctl_result,  \* none, or what the call returned or raised and its text
  \* one call of RunLogicTestOnSim (logic_test_util.py)
  logic_pc,       \* call, done, or idle
  env_vars,       \* the argument env_vars, a dict; empty for None
  os_version,     \* the argument os_version, or None
  xcode_version_number, \* xcode_info_util.GetXcodeVersionNumber()
  developer_dir,  \* os.environ.get('DEVELOPER_DIR'), or None
  test_archs,     \* the architectures of the test executable
  simctl_env_vars, \* the dict given to Popen as env
  logic_exit,     \* the exit code returned
  \* one call of GetLastSupportedIphoneSimType (simulator_util.py)
  type_pc,        \* call, done, or idle
  supported_sim_types, \* what GetSupportedSimDeviceTypes returned
  requested_os_version, \* the argument os_version
  sim_type_result, \* the device type returned, or SimError
  \* one call of GetLastSupportedSimOsVersion (simulator_util.py)
  os_pc,          \* call, done, or idle
  supported_os_versions, \* what GetSupportedSimOsVersions returned
  device_type,    \* the argument device_type, or None
  last_os_version, \* the OS version returned, or the error raised
  \* the cache cleanup of Execute (xcodebuild_test_executor.py)
  cache_pc,       \* launch, finally, leave, done, or idle
  cache_i,        \* the loop variable i
  xcodebuild_test_output, \* the paths in output.getvalue(), in order
  cache_dirs,     \* the directories that exist on disk
  removed_dirs,   \* the directories the last cleanup removed
  cache_attempts, \* the children launched
  cleanups,       \* the calls of _DeleteTestCacheFileDirs made
  try_outcome,    \* how the try block is left: an exit code, RELAUNCH for
                  \* `continue`, RAISED for an exception
  cache_result,   \* what Execute returned, RAISED if it raised
  \* one call of _extra_os_version (simtype_profile.py)
  extra_pc,       \* call, done, or idle
  extra_rounds,   \* the function is the one that rounds to one decimal
  os_version_str, \* the argument, as the numbers between its dots
  requested_minor, \* the minor number m of an OS version asked for
  extra_os_version, \* the value returned, in thousandths
  \* GetXcodeVersionNumber (xcode_info_util.py) and its use in
  \* profile_plist_obj (simtype_profile.py)
  pack_pc,        \* start, called, profile, or idle
  xcode_version,  \* the version `xcodebuild -version` prints, as the
                  \* numbers between its dots
  cached_version_number, \* the global _xcode_version_number
  version_number, \* what GetXcodeVersionNumber returned last
  sim_profiles_dir \* the directory profile_plist_obj chose

readerVars == <<sdk, test_type, return_output, pc, i, test_started,
                test_succeeded, test_failed, output, stdout_line, exit_code,
                decided_by, launches, scanned, written>>
childVars == <<process, live, pipe, emitted>>
wdVars == <<wd_pc, wd_terminate, wd_stuck, elapsed>>
histVars == <<signal_in_time, exit_in_time, relaunched_on>>
execVars == <<readerVars, childVars, wdVars, histVars>>

sessVars == <<command, legacy_xcode, s_pc, attempt, reboot_sim, simulator_id,
              created, shut, deleted, pending, session_exit>>

dirsVars == <<work_dir_arg, output_dir_arg, work_dir, delete_work_dir,
              output_dir, delete_output_dir, prepared, dirs, existed,
              mkdtemps, prepares, streak, once, last_op, closes,
              xctestrun_obj, dummy_project_obj, logic_test_bundle, raised,
              args, runs>>

simVars == <<o_simulator_id, root_dir, log_root_dir, plist_object,
             plist_exists, state_num, log_dir, delete_running, sim_op,
             sim_result, sim_deleted, sim_prev, sim_cmd, sim_seen>>

createVars == <<delete_checks_state, create_pc, create_i, new_simulators,
                creates, create_runs, polls_left, create_result,
                new_simulator_id>>

simctlVars == <<simctl_pc, simctl_i, simctl_runs, simctl_result>>

logicVars == <<logic_pc, env_vars, os_version, xcode_version_number,
               developer_dir, test_archs, simctl_env_vars, logic_exit>>

typeVars == <<type_pc, supported_sim_types, requested_os_version,
              sim_type_result>>

osVars == <<os_pc, supported_os_versions, device_type, last_os_version>>

cacheVars == <<cache_pc, cache_i, xcodebuild_test_output, cache_dirs,
               removed_dirs, cache_attempts, cleanups, try_outcome,
               cache_result>>

extraVars == <<extra_pc, extra_rounds, os_version_str, requested_minor,
               extra_os_version>>

packVars == <<pack_pc, xcode_version, cached_version_number, version_number,
              sim_profiles_dir>>

verVars == <<osVars, cacheVars, extraVars, packVars>>

utilVars == <<createVars, simctlVars, logicVars, typeVars, verVars>>

objVars == <<dirsVars, simVars, utilVars>>

vars == <<execVars, sessVars, objVars>>

(***************************************************************************)
(* XcodebuildTestExecutor: the decisions made after the reader loop.       *)
(***************************************************************************)
\* mutant: the two attempt constants exchanged
MaxAttemptsForSwapped(s) ==
  IF s = IPHONEOS THEN SIM_TEST_MAX_ATTEMPTS ELSE DEVICE_TEST_MAX_ATTEMPTS

MaxAttemptsFor(s) ==
  IF s = IPHONESIMULATOR THEN SIM_TEST_MAX_ATTEMPTS
  ELSE IF s = IPHONEOS THEN DEVICE_TEST_MAX_ATTEMPTS
  ELSE 1

\* mutant: the failed signal is tested before the succeeded signal
StartedResultFailedFirst(succeeded, failed) ==
  IF failed THEN FAILED
  ELSE IF succeeded THEN SUCCEEDED
  ELSE ERROR

\* exit code once the test has started
StartedResult(succeeded, failed) ==
  IF succeeded THEN SUCCEEDED
  ELSE IF failed THEN FAILED
  ELSE ERROR

\* mutant: the two watchdog results exchanged
GetResultForXcodebuildStuckSwapped(s) ==
  IF s = IPHONEOS THEN TEST_NOT_START ELSE NEED_REBOOT_DEVICE

GetResultForXcodebuildStuck(s) ==
  IF s = IPHONEOS THEN NEED_REBOOT_DEVICE ELSE TEST_NOT_START

NeedRebootSim(tt, out) == tt = XCUITEST /\ "sim_background" \in out

NeedRecreateSim(out) == "sim_recreate" \in out

\* mutant: the relaunch test without the test for the last attempt
DeviceNeedsRelaunchOnLast(out, idx, max) == "dev_lost" \in out

\* the relaunch test of the real-device path
DeviceNeedsRelaunch(out, idx, max) == "dev_lost" \in out /\ idx < max - 1

\* mutant: the try block without the test for the interruption text
SimRaisesSimErrorNotOnInterrupted(out, probe) ==
  \/ "crash" \in probe
  \/ "sim_exited" \in out
  \/ "app_missing" \in probe

\* the try block of the simulator path raises SimError; probe holds what the
\* code reads besides the output: "crash" (a crash pattern in the tail of the
\* simulator log) and "app_missing" (IsAppInstalled is false)
SimRaisesSimError(out, probe) ==
  \/ "crash" \in probe
  \/ "sim_exited" \in out
  \/ "sim_interrupted" \in out
  \/ "app_missing" \in probe

\* mutant: the except clause without the test for the last attempt
SimNeedsRelaunchOnLast(out, probe, idx, max) == SimRaisesSimError(out, probe)

\* the except clause: `continue` unless this is the last attempt
SimNeedsRelaunch(out, probe, idx, max) ==
  SimRaisesSimError(out, probe) /\ idx < max - 1

\* mutant: on a device the too-many-instances text is tested before the
\* relaunch test
ClassifyNotStartedTooManyFirst(s, tt, out, probe, idx, max) ==
  IF s = IPHONEOS /\ "dev_toomany" \in out THEN NEED_REBOOT_DEVICE
  ELSE IF s = IPHONEOS /\ DeviceNeedsRelaunch(out, idx, max) THEN RELAUNCH
  ELSE IF s = IPHONESIMULATOR /\ NeedRebootSim(tt, out)
    THEN NEED_REBOOT_DEVICE
  ELSE IF s = IPHONESIMULATOR /\ NeedRecreateSim(out) THEN NEED_RECREATE_SIM
  ELSE IF s = IPHONESIMULATOR /\ SimNeedsRelaunch(out, probe, idx, max)
    THEN RELAUNCH
  ELSE TEST_NOT_START

\* mutant: on a simulator the recreate texts are tested before the
\* failed-to-background text
ClassifyNotStartedRecreateFirst(s, tt, out, probe, idx, max) ==
  IF s = IPHONEOS /\ DeviceNeedsRelaunch(out, idx, max) THEN RELAUNCH
  ELSE IF s = IPHONEOS /\ "dev_toomany" \in out THEN NEED_REBOOT_DEVICE
  ELSE IF s = IPHONESIMULATOR /\ NeedRecreateSim(out) THEN NEED_RECREATE_SIM
  ELSE IF s = IPHONESIMULATOR /\ NeedRebootSim(tt, out)
    THEN NEED_REBOOT_DEVICE
  ELSE IF s = IPHONESIMULATOR /\ SimNeedsRelaunch(out, probe, idx, max)
    THEN RELAUNCH
  ELSE TEST_NOT_START

\* what Execute does with a run whose test did not start and whose watchdog
\* flag was read as false: an exit code, or RELAUNCH for `continue`
ClassifyNotStarted(s, tt, out, probe, idx, max) ==
  IF s = IPHONEOS /\ DeviceNeedsRelaunch(out, idx, max) THEN RELAUNCH
  ELSE IF s = IPHONEOS /\ "dev_toomany" \in out THEN NEED_REBOOT_DEVICE
  ELSE IF s = IPHONESIMULATOR /\ NeedRebootSim(tt, out)
    THEN NEED_REBOOT_DEVICE
  ELSE IF s = IPHONESIMULATOR /\ NeedRecreateSim(out) THEN NEED_RECREATE_SIM
  ELSE IF s = IPHONESIMULATOR /\ SimNeedsRelaunch(out, probe, idx, max)
    THEN RELAUNCH
  ELSE TEST_NOT_START

\* the branch of the try block that is taken
DecidingBranch(started, stuck) ==
  IF started THEN "started" ELSE IF stuck THEN "stuck" ELSE "rule"

\* mutant: the relaunch rules are tested before test_started
AttemptResultRelaunchFirst(s, tt, started, succeeded, failed, stuck, out, probe, idx, max) ==
  IF ClassifyNotStarted(s, tt, out, probe, idx, max) = RELAUNCH THEN RELAUNCH
  ELSE IF started THEN StartedResult(succeeded, failed)
  ELSE IF stuck THEN GetResultForXcodebuildStuck(s)
  ELSE ClassifyNotStarted(s, tt, out, probe, idx, max)

\* mutant: the watchdog flag is tested before test_started
AttemptResultStuckFirst(s, tt, started, succeeded, failed, stuck, out, probe, idx, max) ==
  IF stuck THEN GetResultForXcodebuildStuck(s)
  ELSE IF started THEN StartedResult(succeeded, failed)
  ELSE ClassifyNotStarted(s, tt, out, probe, idx, max)

\* the whole decision after the reader loop
AttemptResult(s, tt, started, succeeded, failed, stuck, out, probe, idx, max) ==
  IF started THEN StartedResult(succeeded, failed)
  ELSE IF stuck THEN GetResultForXcodebuildStuck(s)
  ELSE ClassifyNotStarted(s, tt, out, probe, idx, max)

Probes == SUBSET {"crash", "app_missing"}

(***************************************************************************)
(* Execute: the reader.                                                    *)
(***************************************************************************)
ExecInit ==
  /\ sdk \in SUPPORTED_SDKS
  /\ test_type \in SUPPORTED_TEST_TYPES
  /\ return_output \in BOOLEAN
  /\ pc = "launch"
  /\ i = 0
  /\ test_started = FALSE
  /\ test_succeeded = FALSE
  /\ test_failed = FALSE
  /\ output = {}
  /\ stdout_line = "none"
  /\ exit_code = NoCode
  /\ decided_by = "none"
  /\ launches = 0
  /\ scanned = 0
  /\ written = 0
  /\ process = "none"
  /\ live = 0
  /\ pipe = <<>>
  /\ emitted = 0
  /\ wd_pc = "idle"
  /\ wd_terminate = FALSE
  /\ wd_stuck = FALSE
  /\ elapsed = 0
  /\ signal_in_time = FALSE
  /\ exit_in_time = FALSE
  /\ relaunched_on = "none"

\* subprocess.Popen, CheckXcodebuildStuckThread(...).start(), io.StringIO().
\* The watchdog of an earlier attempt keeps its own object and its own,
\* ended, process: what it still does changes nothing below.
Launch ==
  /\ pc = "launch"
  /\ process' = "running"
  /\ live' = live + 1
  /\ launches' = launches + 1
  /\ pipe' = <<>>
  /\ emitted' = 0
  /\ wd_pc' = "loop"
  /\ wd_terminate' = FALSE
  /\ wd_stuck' = FALSE
  /\ elapsed' = 0
  /\ signal_in_time' = FALSE
  /\ exit_in_time' = FALSE
  /\ output' = {}
  /\ scanned' = 0
  /\ written' = 0
  /\ pc' = "read"
  /\ UNCHANGED <<sessVars, objVars>>
  /\ UNCHANGED <<sdk, test_type, return_output, i, test_started,
                 test_succeeded, test_failed, stdout_line, exit_code,
                 decided_by, relaunched_on>>

\* mutant: the runner signal cancels the watchdog whatever the test type and
\* the device kind
CancelsWatchdogOnAnyRunnerSignal(line) ==
  HasTestStartedSignal(line) \/ HasRunnerStartedSignal(line)

\* the line cancels the watchdog: check_xcodebuild_stuck.Terminate() is called
CancelsWatchdog(line) ==
  \/ HasTestStartedSignal(line)
  \/ /\ test_type = XCUITEST
     /\ HasRunnerStartedSignal(line)
     /\ sdk = IPHONESIMULATOR

\* mutant: the succeeded and failed signals are looked for on every line
ResultSignalsTestedOnEveryLine(started) == TRUE

\* the else branch of `if not test_started`: the succeeded and failed
\* signals are looked for when the test had started before the line was read
ResultSignalsTested(started) == started

\* readline returns a line; the line is scanned for the signals
ReadLine ==
  /\ pc = "read"
  /\ pipe # <<>>
  /\ LET line == Head(pipe) IN
       /\ stdout_line' = line
       /\ pipe' = Tail(pipe)
       /\ IF ~test_started
            THEN /\ test_started' = HasTestStartedSignal(line)
                 /\ wd_terminate' = (wd_terminate \/ CancelsWatchdog(line))
                 /\ signal_in_time' =
                      (\/ signal_in_time
                       \/ CancelsWatchdog(line) /\ elapsed <= StartupTimeout)
            ELSE UNCHANGED <<test_started, wd_terminate, signal_in_time>>
       /\ IF ResultSignalsTested(test_started)
            THEN /\ test_succeeded' =
                      (test_succeeded \/ HasSucceededSignal(line))
                 /\ test_failed' = (test_failed \/ HasFailedSignal(line))
            ELSE UNCHANGED <<test_succeeded, test_failed>>
  /\ scanned' = scanned + 1
  /\ pc' = "write"
  /\ UNCHANGED <<sessVars, objVars>>
  /\ UNCHANGED <<sdk, test_type, return_output, i, output, exit_code,
                 decided_by, launches, written, process, live, emitted,
                 wd_pc, wd_stuck, elapsed, exit_in_time,
                 relaunched_on>>

\* mutant: sys.stdout.write is made under the condition of output.write
WriteLineUnderOutputCondition ==
  /\ pc = "write"
  /\ output' = IF return_output \/ ~test_started
                 THEN output \cup ({stdout_line} \cap ErrorLines)
                 ELSE output
  /\ stdout_line' = "none"
  /\ written' = IF return_output \/ ~test_started THEN written + 1
                ELSE written
  /\ pc' = "read"
  /\ UNCHANGED <<sessVars, objVars>>
  /\ UNCHANGED <<sdk, test_type, return_output, i, test_started,
                 test_succeeded, test_failed, exit_code, decided_by,
                 launches, scanned, childVars, wdVars, histVars>>

\* sys.stdout.write(stdout_line); output.write(stdout_line)
WriteLine ==
  /\ pc = "write"
  /\ output' = IF return_output \/ ~test_started
                 THEN output \cup ({stdout_line} \cap ErrorLines)
                 ELSE output
  /\ stdout_line' = "none"
  /\ written' = written + 1
  /\ pc' = "read"
  /\ UNCHANGED <<sessVars, objVars>>
  /\ UNCHANGED <<sdk, test_type, return_output, i, test_started,
                 test_succeeded, test_failed, exit_code, decided_by,
                 launches, scanned, childVars, wdVars, histVars>>

\* mutant: the reader loop is left as soon as no line is pending, whether or
\* not the child has ended (a read that does not block)
ReadEOFWhileChildRuns ==
  /\ pc = "read"
  /\ pipe = <<>>
  /\ pc' = "decide"
  /\ UNCHANGED <<sessVars, objVars>>
  /\ UNCHANGED <<sdk, test_type, return_output, i, test_started,
                 test_succeeded, test_failed, output, stdout_line, exit_code,
                 decided_by, launches, scanned, written, childVars, wdVars,
                 histVars>>

\* readline returns '': the pipe is drained and the child, ended, has closed
\* its end of it
ReadEOF ==
  /\ pc = "read"
  /\ pipe = <<>>
  /\ process \in {"exited", "terminated"}
  /\ pc' = "decide"
  /\ UNCHANGED <<sessVars, objVars>>
  /\ UNCHANGED <<sdk, test_type, return_output, i, test_started,
                 test_succeeded, test_failed, output, stdout_line, exit_code,
                 decided_by, launches, scanned, written, childVars, wdVars,
                 histVars>>

\* the try block after the reader loop: a return, or `continue` (and the end
\* of the for loop, where Execute returns None, when no attempt is left)
Decide ==
  /\ pc = "decide"
  /\ \E probe \in Probes :
       LET max == MaxAttemptsFor(sdk)
           r == AttemptResult(sdk, test_type, test_started, test_succeeded,
                              test_failed, wd_stuck, output, probe, i, max)
       IN  IF r = RELAUNCH
             THEN /\ i' = i + 1
                  /\ pc' = IF i + 1 < max THEN "launch" ELSE "done"
                  /\ relaunched_on' = IF "sim_interrupted" \in output
                                        THEN "interrupted" ELSE "other"
                  /\ UNCHANGED <<exit_code, decided_by>>
             ELSE /\ exit_code' = r
                  /\ decided_by' = DecidingBranch(test_started, wd_stuck)
                  /\ pc' = "done"
                  /\ UNCHANGED <<i, relaunched_on>>
  /\ wd_terminate' = (wd_terminate \/ ~test_started)
  /\ UNCHANGED <<sessVars, objVars>>
  /\ UNCHANGED <<sdk, test_type, return_output, test_started, test_succeeded,
                 test_failed, output, stdout_line, launches, scanned, written,
                 childVars, wd_pc, wd_stuck, elapsed, signal_in_time,
                 exit_in_time>>

(***************************************************************************)
(* The child process and the clock.                                        *)
(***************************************************************************)
ChildWrite ==
  /\ process = "running"
  /\ emitted < MaxLines
  /\ Len(pipe) < PipeCap
  /\ \E line \in LinesFor(sdk) : pipe' = Append(pipe, line)
  /\ emitted' = emitted + 1
  /\ UNCHANGED <<sessVars, objVars>>
  /\ UNCHANGED <<readerVars, process, live, wdVars, histVars>>

ChildExit ==
  /\ process = "running"
  /\ process' = "exited"
  /\ live' = live - 1
  /\ exit_in_time' = (elapsed <= StartupTimeout)
  /\ UNCHANGED <<sessVars, objVars>>
  /\ UNCHANGED <<readerVars, pipe, emitted, wdVars, signal_in_time,
                 relaunched_on>>

Tick ==
  /\ wd_pc # "idle"
  /\ elapsed <= StartupTimeout
  /\ elapsed' = elapsed + 1
  /\ UNCHANGED <<sessVars, objVars>>
  /\ UNCHANGED <<readerVars, childVars, wd_pc, wd_terminate, wd_stuck,
                 histVars>>

(***************************************************************************)
(* CheckXcodebuildStuckThread.run                                          *)
(***************************************************************************)
\* the while condition: the thread sleeps again while it holds
WdKeepsWaiting ==
  /\ ~wd_terminate
  /\ StartupTimeout >= elapsed
  /\ process = "running"

\* the while loop is left
WdLeaveLoop ==
  /\ wd_pc = "loop"
  /\ ~WdKeepsWaiting
  /\ wd_pc' = "check"
  /\ UNCHANGED <<sessVars, objVars>>
  /\ UNCHANGED <<readerVars, childVars, wd_terminate, wd_stuck, elapsed,
                 histVars>>

\* the condition of the if statement after the loop
WdDeemsStuck == ~wd_terminate /\ StartupTimeout < elapsed

WdCheck ==
  /\ wd_pc = "check"
  /\ wd_pc' = IF WdDeemsStuck THEN "set_stuck" ELSE "end"
  /\ UNCHANGED <<sessVars, objVars>>
  /\ UNCHANGED <<readerVars, childVars, wd_terminate, wd_stuck, elapsed,
                 histVars>>

\* self._is_xcodebuild_stuck = True
WdSetStuck ==
  /\ wd_pc = "set_stuck"
  /\ wd_stuck' = TRUE
  /\ wd_pc' = "kill"
  /\ UNCHANGED <<sessVars, objVars>>
  /\ UNCHANGED <<readerVars, childVars, wd_terminate, elapsed, histVars>>

\* self._xcodebuild_test_popen.terminate()
WdKill ==
  /\ wd_pc = "kill"
  /\ wd_pc' = "end"
  /\ IF process = "running"
       THEN process' = "terminated" /\ live' = live - 1
       ELSE UNCHANGED <<process, live>>
  /\ UNCHANGED <<sessVars, objVars>>
  /\ UNCHANGED <<readerVars, pipe, emitted, wd_terminate, wd_stuck, elapsed,
                 histVars>>

\* no sub-command is modelled when Execute is examined by itself
SessIdle ==
  /\ command = "none"
  /\ legacy_xcode = FALSE
  /\ s_pc = "idle"
  /\ attempt = 0
  /\ reboot_sim = FALSE
  /\ simulator_id = 0
  /\ created = {}
  /\ shut = {}
  /\ deleted = {}
  /\ pending = "none"
  /\ session_exit = NoCode

\* no XctestSession object is followed
DirsIdle ==
  /\ work_dir_arg = "None"
  /\ output_dir_arg = "None"
  /\ work_dir = "None"
  /\ delete_work_dir = TRUE
  /\ output_dir = "None"
  /\ delete_output_dir = TRUE
  /\ prepared = FALSE
  /\ dirs = {}
  /\ existed = {}
  /\ mkdtemps = 0
  /\ prepares = 0
  /\ streak = 0
  /\ once = <<>>
  /\ last_op = "none"
  /\ closes = 0
  /\ xctestrun_obj = FALSE
  /\ dummy_project_obj = FALSE
  /\ logic_test_bundle = FALSE
  /\ raised = "none"
  /\ args = <<>>
  /\ runs = 0

\* no Simulator object is followed
SimIdle ==
  /\ o_simulator_id = "None"
  /\ root_dir = FALSE
  /\ log_root_dir = FALSE
  /\ plist_object = FALSE
  /\ plist_exists = FALSE
  /\ state_num = 0
  /\ log_dir = FALSE
  /\ delete_running = FALSE
  /\ sim_op = "none"
  /\ sim_result = "none"
  /\ sim_deleted = FALSE
  /\ sim_prev = <<"none", "none">>
  /\ sim_cmd = FALSE
  /\ sim_seen = "none"

\* no call of CreateNewSimulator is followed
CreateIdle ==
  /\ delete_checks_state = FALSE
  /\ create_pc = "idle"
  /\ create_i = 0
  /\ new_simulators = <<>>
  /\ creates = 0
  /\ create_runs = 0
  /\ polls_left = 0
  /\ create_result = "none"
  /\ new_simulator_id = 0

\* no call of RunSimctlCommand is followed
SimctlIdle ==
  /\ simctl_pc = "idle"
  /\ simctl_i = 0
  /\ simctl_runs = <<>>
  /\ simctl_result = <<"none">>

\* the dict without keys
EmptyDict == [k \in {} |-> k]

\* no call of RunLogicTestOnSim is followed
LogicIdle ==
  /\ logic_pc = "idle"
  /\ env_vars = EmptyDict
  /\ os_version = "None"
  /\ xcode_version_number = 0
  /\ developer_dir = "None"
  /\ test_archs = {}
  /\ simctl_env_vars = EmptyDict
  /\ logic_exit = NoCode

\* no call of GetLastSupportedIphoneSimType is followed
TypeIdle ==
  /\ type_pc = "idle"
  /\ supported_sim_types = <<>>
  /\ requested_os_version = "None"
  /\ sim_type_result = "none"

\* no call of GetLastSupportedSimOsVersion is followed
OsIdle ==
  /\ os_pc = "idle"
  /\ supported_os_versions = <<>>
  /\ device_type = "None"
  /\ last_os_version = "none"

\* no cache cleanup is followed
CacheIdle ==
  /\ cache_pc = "idle"
  /\ cache_i = 0
  /\ xcodebuild_test_output = <<>>
  /\ cache_dirs = {}
  /\ removed_dirs = {}
  /\ cache_attempts = 0
  /\ cleanups = 0
  /\ try_outcome = NoCode
  /\ cache_result = NoCode

\* no call of _extra_os_version is followed
ExtraIdle ==
  /\ extra_pc = "idle"
  /\ extra_rounds = FALSE
  /\ os_version_str = <<>>
  /\ requested_minor = 0
  /\ extra_os_version = 0

\* no call of GetXcodeVersionNumber is followed
PackIdle ==
  /\ pack_pc = "idle"
  /\ xcode_version = <<>>
  /\ cached_version_number = NoVersionNumber
  /\ version_number = NoVersionNumber
  /\ sim_profiles_dir = "none"

VerIdle == OsIdle /\ CacheIdle /\ ExtraIdle /\ PackIdle

UtilIdle == CreateIdle /\ SimctlIdle /\ LogicIdle /\ TypeIdle /\ VerIdle

ObjIdle == DirsIdle /\ SimIdle /\ UtilIdle

Init == ExecInit /\ SessIdle /\ ObjIdle

Next ==
  \/ Launch
  \/ ReadLine
  \/ WriteLine
  \/ ReadEOF
  \/ Decide
  \/ ChildWrite
  \/ ChildExit
  \/ Tick
  \/ WdLeaveLoop
  \/ WdCheck
  \/ WdSetStuck
  \/ WdKill

Spec == Init /\ [][Next]_vars

\* the steps of the thread that runs Execute, and those of the watchdog thread
ReaderNext == Launch \/ ReadLine \/ WriteLine \/ ReadEOF \/ Decide
WatchdogNext == WdLeaveLoop \/ WdCheck \/ WdSetStuck \/ WdKill

\* both threads are scheduled and time passes; the child is free to write,
\* to exit or to hang
SpecLive ==
  /\ Init /\ [][Next]_vars
  /\ WF_vars(ReaderNext)
  /\ WF_vars(WatchdogNext)
  /\ WF_vars(Tick)

(***************************************************************************)
(* The sub-commands `test` and `simulator_test`.  One attempt of Execute   *)
(* is one step here: what the reader loop and the watchdog left behind     *)
(* (the flags, the captured output, the probes) is chosen freely and the   *)
(* decision after the reader loop is the one of Execute.                   *)
(***************************************************************************)
SessInit ==
  /\ command \in {"test", "simulator_test"}
  /\ sdk \in (IF command = "test" THEN SUPPORTED_SDKS ELSE {IPHONESIMULATOR})
  \* _FinalizeTestType leaves a logic test only for the simulator
  /\ test_type \in (IF sdk = IPHONEOS THEN {XCUITEST, XCTEST}
                                      ELSE SUPPORTED_TEST_TYPES)
  /\ legacy_xcode \in BOOLEAN
  /\ return_output = FALSE
  /\ pc = "idle"
  /\ i = 0
  /\ test_started = FALSE
  /\ test_succeeded = FALSE
  /\ test_failed = FALSE
  /\ output = {}
  /\ stdout_line = "none"
  /\ exit_code = NoCode
  /\ decided_by = "none"
  /\ launches = 0
  /\ scanned = 0
  /\ written = 0
  /\ process = "none"
  /\ live = 0
  /\ pipe = <<>>
  /\ emitted = 0
  /\ wd_pc = "idle"
  /\ wd_terminate = FALSE
  /\ wd_stuck = FALSE
  /\ elapsed = 0
  /\ signal_in_time = FALSE
  /\ exit_in_time = FALSE
  /\ relaunched_on = "none"
  /\ s_pc = "prepare"
  /\ attempt = 0
  /\ reboot_sim = FALSE
  /\ simulator_id = 0
  /\ created = {}
  /\ shut = {}
  /\ deleted = {}
  /\ pending = "none"
  /\ session_exit = NoCode
  /\ ObjIdle

\* the variables of Execute that the session steps do not use, and the
\* objects modelled on their own
sessRest == <<return_output, pc, test_started, test_succeeded, test_failed,
              output, stdout_line, scanned, written, childVars,
              wdVars, histVars, objVars>>

\* session.Prepare and session.SetLaunchOptions return
SessPrepare ==
  /\ s_pc = "prepare"
  /\ s_pc' = IF command = "test" THEN "run" ELSE "loop"
  /\ UNCHANGED <<sdk, test_type, i, exit_code, launches, decided_by, sessRest,
                 command,
                 legacy_xcode, attempt, reboot_sim, simulator_id, created,
                 shut, deleted, pending, session_exit>>

\* session.Prepare raises IllegalArgumentError: it leaves the sub-command
SessPrepareRaises ==
  /\ s_pc = "prepare"
  /\ s_pc' = "raised"
  /\ pending' = "IllegalArgumentError"
  /\ UNCHANGED <<sdk, test_type, i, exit_code, launches, decided_by, sessRest,
                 command,
                 legacy_xcode, attempt, reboot_sim, simulator_id, created,
                 shut, deleted, session_exit>>

\* top of the loop, reboot_sim false: CreateNewSimulator returns a new id
SessCreateNewSimulator ==
  /\ s_pc = "loop"
  /\ ~reboot_sim
  /\ LET id == Cardinality(created) + 1 IN
       /\ created' = created \cup {id}
       /\ simulator_id' = id
  /\ s_pc' = "run"
  /\ i' = 0
  /\ exit_code' = NoCode
  /\ UNCHANGED <<sdk, test_type, launches, decided_by, sessRest,
                 command, legacy_xcode,
                 attempt, reboot_sim, shut, deleted, pending, session_exit>>

\* CreateNewSimulator raises SimError outside the try block: _SimulatorTest
\* returns SIM_ERROR
SessCreateNewSimulatorRaises ==
  /\ s_pc = "loop"
  /\ ~reboot_sim
  /\ s_pc' = "returned"
  /\ session_exit' = SIM_ERROR
  /\ UNCHANGED <<sdk, test_type, i, exit_code, launches, decided_by, sessRest,
                 command,
                 legacy_xcode, attempt, reboot_sim, simulator_id, created,
                 shut, deleted, pending>>

\* top of the loop, reboot_sim true: the simulator is kept
SessKeepSimulator ==
  /\ s_pc = "loop"
  /\ reboot_sim
  /\ reboot_sim' = FALSE
  /\ s_pc' = "run"
  /\ i' = 0
  /\ exit_code' = NoCode
  /\ UNCHANGED <<sdk, test_type, launches, decided_by, sessRest,
                 command, legacy_xcode,
                 attempt, simulator_id, created, shut, deleted, pending,
                 session_exit>>

\* RunTest runs a logic test with RunLogicTestOnSim, everything else with
\* Execute
UsesExecute == ~(sdk = IPHONESIMULATOR /\ test_type = LOGIC_TEST)

\* XctestRun.Run and DummyProject.RunXcTest, which RunTest calls, are not
\* part of the sources read here: they are taken to call Execute once and to
\* return its exit code
XctestRunResult(execute_result) == execute_result

\* one attempt of Execute inside RunTest: the child is launched, read to the
\* end, and the result decided
SessExecuteAttempt ==
  /\ s_pc = "run"
  /\ UsesExecute
  /\ launches' = launches + 1
  /\ \E started \in BOOLEAN, succeeded \in BOOLEAN, failed \in BOOLEAN,
        stuck \in BOOLEAN, out \in SUBSET ErrorLines, probe \in Probes :
       LET max == MaxAttemptsFor(sdk)
           r == AttemptResult(sdk, test_type, started, started /\ succeeded,
                              started /\ failed, stuck, out, probe, i, max)
       IN  IF r = RELAUNCH
             THEN /\ i' = i + 1
                  /\ s_pc' = IF i + 1 < max THEN "run" ELSE "ran"
                  /\ UNCHANGED <<exit_code, decided_by>>
             ELSE /\ exit_code' = XctestRunResult(r)
                  /\ decided_by' = DecidingBranch(started, stuck)
                  /\ s_pc' = "ran"
                  /\ UNCHANGED i
  /\ UNCHANGED <<sdk, test_type, sessRest, command, legacy_xcode, attempt,
                 reboot_sim, simulator_id, created, shut, deleted, pending,
                 session_exit>>

\* RunLogicTestOnSim: one child, FAILED for a non-zero return code
SessRunLogicTest ==
  /\ s_pc = "run"
  /\ ~UsesExecute
  /\ launches' = launches + 1
  /\ \E return_code_zero \in BOOLEAN :
       exit_code' = IF return_code_zero THEN SUCCEEDED ELSE FAILED
  /\ s_pc' = "ran"
  /\ UNCHANGED <<sdk, test_type, i, decided_by, sessRest,
                 command, legacy_xcode, attempt,
                 reboot_sim, simulator_id, created, shut, deleted, pending,
                 session_exit>>

\* RunTest raises: out of `test`, or into the finally block of the loop
SessRunTestRaises ==
  /\ s_pc = "run"
  /\ \E error \in {"SimError", "OtherError"} : pending' = error
  /\ s_pc' = IF command = "test" THEN "raised" ELSE "finally"
  /\ UNCHANGED <<sdk, test_type, i, exit_code, launches, decided_by, sessRest,
                 command,
                 legacy_xcode, attempt, reboot_sim, simulator_id, created,
                 shut, deleted, session_exit>>

\* _Test: return session.RunTest(args.id)
SessTestReturns ==
  /\ s_pc = "ran"
  /\ command = "test"
  /\ session_exit' = exit_code
  /\ s_pc' = "returned"
  /\ UNCHANGED <<sdk, test_type, i, exit_code, launches, decided_by, sessRest,
                 command,
                 legacy_xcode, attempt, reboot_sim, simulator_id, created,
                 shut, deleted, pending>>

\* mutant: TEST_NOT_START asks for another attempt too
PlannerRetriesNotStarted(code, idx) ==
  /\ idx < PLANNER_MAX_ATTEMPTS - 1
  /\ code \in {NEED_RECREATE_SIM, NEED_REBOOT_DEVICE, TEST_NOT_START}

\* the exit code asks for another attempt of the loop
PlannerRetries(code, idx) ==
  /\ idx < PLANNER_MAX_ATTEMPTS - 1
  /\ code \in {NEED_RECREATE_SIM, NEED_REBOOT_DEVICE}

\* _RunSimulatorTest after RunTest: continue or return, through finally
SessPlan ==
  /\ s_pc = "ran"
  /\ command = "simulator_test"
  /\ pending' = IF PlannerRetries(exit_code, attempt) THEN "continue"
                ELSE "return"
  /\ reboot_sim' = (/\ PlannerRetries(exit_code, attempt)
                    /\ exit_code = NEED_REBOOT_DEVICE)
  /\ s_pc' = "finally"
  /\ UNCHANGED <<sdk, test_type, i, exit_code, launches, decided_by, sessRest,
                 command,
                 legacy_xcode, attempt, simulator_id, created, shut, deleted,
                 session_exit>>

\* the finally block calls simulator_obj.Shutdown()
FinallyShutsDown == reboot_sim \/ legacy_xcode

\* the finally block calls simulator_obj.Delete()
FinallyDeletes == ~reboot_sim

\* Shutdown raises SimError inside the finally block: the error replaces what
\* was pending, Delete is not reached, _SimulatorTest returns SIM_ERROR
SessFinallyShutdownRaises ==
  /\ s_pc = "finally"
  /\ FinallyShutsDown
  /\ s_pc' = "returned"
  /\ session_exit' = SIM_ERROR
  /\ UNCHANGED <<sdk, test_type, i, exit_code, launches, decided_by, sessRest,
                 command,
                 legacy_xcode, attempt, reboot_sim, simulator_id, created,
                 shut, deleted, pending>>

\* the finally block runs to its end; then the loop continues, the exit code
\* is returned, or the pending error goes on to _SimulatorTest
SessFinally ==
  /\ s_pc = "finally"
  /\ shut' = IF FinallyShutsDown THEN shut \cup {simulator_id} ELSE shut
  /\ deleted' = IF FinallyDeletes THEN deleted \cup {simulator_id}
                ELSE deleted
  /\ CASE pending = "continue" ->
            /\ attempt' = attempt + 1
            /\ s_pc' = "loop"
            /\ UNCHANGED session_exit
       [] pending = "return" ->
            /\ session_exit' = exit_code
            /\ s_pc' = "returned"
            /\ UNCHANGED attempt
       [] pending = "SimError" ->
            /\ session_exit' = SIM_ERROR
            /\ s_pc' = "returned"
            /\ UNCHANGED attempt
       [] OTHER ->
            /\ s_pc' = "raised"
            /\ UNCHANGED <<attempt, session_exit>>
  /\ UNCHANGED <<sdk, test_type, i, exit_code, launches, decided_by, sessRest,
                 command,
                 legacy_xcode, reboot_sim, simulator_id, created, pending>>

SessNext ==
  \/ SessPrepare
  \/ SessPrepareRaises
  \/ SessCreateNewSimulator
  \/ SessCreateNewSimulatorRaises
  \/ SessKeepSimulator
  \/ SessExecuteAttempt
  \/ SessRunLogicTest
  \/ SessRunTestRaises
  \/ SessTestReturns
  \/ SessPlan
  \/ SessFinallyShutdownRaises
  \/ SessFinally

SpecSession == SessInit /\ [][SessNext]_vars

(***************************************************************************)
(* XctestSession: the work directory and the output directory.  "W" and    *)
(* "O" are the directories a caller may give to __init__; the others are   *)
(* made by tempfile.mkdtemp().                                             *)
(***************************************************************************)
TempDirs == <<"tmp1", "tmp2", "tmp3", "tmp4", "tmp5", "tmp6", "tmp7", "tmp8">>

CallerDirs == {"W", "O"}

\* the reader loop, the child, the watchdog and the session while another
\* part of the program is followed alone
ReaderIdle ==
  /\ pc = "idle"
  /\ i = 0
  /\ test_started = FALSE
  /\ test_succeeded = FALSE
  /\ test_failed = FALSE
  /\ output = {}
  /\ stdout_line = "none"
  /\ exit_code = NoCode
  /\ decided_by = "none"
  /\ launches = 0
  /\ scanned = 0
  /\ written = 0
  /\ process = "none"
  /\ live = 0
  /\ pipe = <<>>
  /\ emitted = 0
  /\ wd_pc = "idle"
  /\ wd_terminate = FALSE
  /\ wd_stuck = FALSE
  /\ elapsed = 0
  /\ signal_in_time = FALSE
  /\ exit_in_time = FALSE
  /\ relaunched_on = "none"
  /\ SessIdle

\* no run of Execute is followed, and its arguments are fixed
RunnerIdle ==
  /\ test_type = XCTEST
  /\ return_output = FALSE
  /\ ReaderIdle

\* XctestSession.__init__; a directory the caller names may exist or not
DirsInit ==
  /\ RunnerIdle
  /\ sdk \in SUPPORTED_SDKS
  /\ work_dir_arg \in {"None", "W"}
  /\ output_dir_arg \in {"None", "O"}
  /\ work_dir = work_dir_arg
  /\ delete_work_dir = TRUE
  /\ output_dir = output_dir_arg
  /\ delete_output_dir = TRUE
  /\ prepared = FALSE
  /\ dirs \in SUBSET ({work_dir_arg, output_dir_arg} \ {"None"})
  /\ existed = dirs
  /\ mkdtemps = 0
  /\ prepares = 0
  /\ streak = 0
  /\ once = <<>>
  /\ last_op = "new"
  /\ closes = 0
  /\ xctestrun_obj = FALSE
  /\ dummy_project_obj = FALSE
  /\ logic_test_bundle = FALSE
  /\ raised = "none"
  /\ args = <<>>
  /\ runs = 0
  /\ SimIdle
  /\ UtilIdle

\* Prepare, the work directory: self._work_dir, the number of mkdtemp calls
\* and the directories on disk after it
WorkDirSet == work_dir # "None"
WorkDirPrepared == IF WorkDirSet THEN work_dir ELSE TempDirs[mkdtemps + 1]
MkdtempsAfterWorkDir == IF WorkDirSet THEN mkdtemps ELSE mkdtemps + 1
DirsAfterWorkDir == dirs \cup {WorkDirPrepared}

\* Prepare, the output directory
OutputDirSet == output_dir # "None"
OutputDirPrepared ==
  IF OutputDirSet THEN output_dir ELSE TempDirs[MkdtempsAfterWorkDir + 1]
MkdtempsAfterOutputDir ==
  IF OutputDirSet THEN MkdtempsAfterWorkDir ELSE MkdtempsAfterWorkDir + 1
DirsAfterOutputDir == DirsAfterWorkDir \cup {OutputDirPrepared}

\* another call of Prepare fits the bounds
CanPrepare == prepares < MaxPrepares /\ mkdtemps + 2 <= Len(TempDirs)

\* the arguments of Prepare and what it finds: the Xcode version number,
\* whether an xctestrun file is given, the test bundle (not given, a path
\* that does not exist, a path with another extension, or a bundle), the app
\* under test (not given, missing or with another extension, or an app), the
\* test type asked for, and the type _DetectTestType finds in the bundle
\* when no test type is asked for
PrepareArgs ==
  {a \in [xcode_version_num : {799, 800},
          xctestrun_file_path : BOOLEAN,
          test_bundle : {"None", "missing", "bad_ext", "ok"},
          app_under_test : {"None", "bad", "ok"},
          test_type : {"None", XCUITEST, XCTEST, LOGIC_TEST, "other"},
          detected : {"None", XCUITEST, XCTEST}] :
     (a.detected = "None") = (a.test_type # "None")}

IllegalArgumentError == "IllegalArgumentError"

\* _FinalizeTestType: the test type, or IllegalArgumentError
FinalizeTestType(detected, s, has_app, original) ==
  LET tt == IF original = "None"
              THEN IF detected = XCTEST /\ ~has_app /\ s = IPHONESIMULATOR
                     THEN LOGIC_TEST ELSE detected
            ELSE IF original = LOGIC_TEST /\ s # IPHONESIMULATOR
              THEN IF has_app THEN XCTEST ELSE IllegalArgumentError
            ELSE IF original = XCTEST /\ ~has_app /\ s = IPHONESIMULATOR
              THEN LOGIC_TEST
            ELSE original
  IN  IF tt # IllegalArgumentError /\ ~has_app /\ tt # LOGIC_TEST
        THEN IllegalArgumentError
        ELSE tt

\* _PrepareBundles raises IllegalArgumentError
PrepareBundlesRaises(a) ==
  \/ a.app_under_test = "bad"
  \/ a.test_bundle \in {"missing", "bad_ext"}

\* mutant: the way chosen without the test that a test bundle is given
PrepareOutcomeBundleNotRequired(s, a) ==
  IF a.xctestrun_file_path
    THEN IF a.xcode_version_num < 800 THEN IllegalArgumentError
         ELSE "xctestrun"
  ELSE IF PrepareBundlesRaises(a) THEN IllegalArgumentError
  ELSE LET tt == FinalizeTestType(a.detected, s, a.app_under_test = "ok",
                                  a.test_type)
       IN  IF tt = IllegalArgumentError THEN IllegalArgumentError
           ELSE IF /\ tt \in SUPPORTED_TEST_TYPES /\ tt # LOGIC_TEST
                   /\ a.xcode_version_num >= 800 THEN "xctestrun"
           ELSE IF tt = XCUITEST THEN IllegalArgumentError
           ELSE IF tt = XCTEST THEN "dummy_project"
           ELSE IF tt = LOGIC_TEST THEN "logic_test"
           ELSE IllegalArgumentError

\* Prepare after the directories: the way chosen to run the test
\* (xctestrun, dummy_project, logic_test), or IllegalArgumentError
PrepareOutcome(s, a) ==
  IF a.xctestrun_file_path
    THEN IF a.xcode_version_num < 800 THEN IllegalArgumentError
         ELSE "xctestrun"
  ELSE IF a.test_bundle = "None" THEN IllegalArgumentError
  ELSE IF PrepareBundlesRaises(a) THEN IllegalArgumentError
  ELSE LET tt == FinalizeTestType(a.detected, s, a.app_under_test = "ok",
                                  a.test_type)
       IN  IF tt = IllegalArgumentError THEN IllegalArgumentError
           ELSE IF /\ tt \in SUPPORTED_TEST_TYPES /\ tt # LOGIC_TEST
                   /\ a.xcode_version_num >= 800 THEN "xctestrun"
           ELSE IF tt = XCUITEST THEN IllegalArgumentError
           ELSE IF tt = XCTEST THEN "dummy_project"
           ELSE IF tt = LOGIC_TEST THEN "logic_test"
           ELSE IllegalArgumentError

\* what the arguments of a Prepare call are for the four rejections: no
\* test bundle or a path that does not exist, an extension that is not
\* recognised, a UI test on Xcode older than 8, a logic test for a device
\* without an app under test
PrepareCase(s, a) ==
  [xctestrun_file_path |-> a.xctestrun_file_path,
   bundle_missing |-> a.test_bundle \in {"None", "missing"},
   bundle_bad_ext |-> a.test_bundle = "bad_ext",
   ui_test_on_old_xcode |->
     a.test_type = XCUITEST /\ a.xcode_version_num < 800,
   logic_test_on_device_without_app |->
     /\ a.test_type = LOGIC_TEST /\ s = IPHONEOS
     /\ a.app_under_test = "None"]

\* every case of the arguments with what Prepare does in it, for each sdk
PrepareCases ==
  {<<s, PrepareCase(s, a), PrepareOutcome(s, a)>> :
     s \in SUPPORTED_SDKS, a \in PrepareArgs}

\* the Execute variables that RunTest leaves alone
runTestRest == <<sdk, test_type, return_output, pc, i, test_started,
                 test_succeeded, test_failed, output, stdout_line,
                 decided_by, scanned, written, childVars, wdVars, histVars>>

\* os.mkdir(self._work_dir) raises: nothing has been assigned yet
PrepareWorkDirRaises ==
  /\ CanPrepare
  /\ WorkDirSet /\ work_dir \notin dirs
  /\ prepares' = prepares + 1
  /\ streak' = 0
  /\ last_op' = "PrepareRaised"
  /\ raised' = "OSError"
  /\ \E c \in PrepareCases : c[1] = sdk /\ args' = <<c[2]>>
  /\ closes' = 0
  /\ UNCHANGED <<work_dir_arg, output_dir_arg, work_dir, delete_work_dir,
                 output_dir, delete_output_dir, prepared, dirs, existed,
                 mkdtemps, once, xctestrun_obj, dummy_project_obj,
                 logic_test_bundle, runs>>
  /\ UNCHANGED <<execVars, sessVars, simVars, utilVars>>

\* os.mkdir(self._output_dir) raises: the work directory has been handled
PrepareOutputDirRaises ==
  /\ CanPrepare
  /\ OutputDirSet /\ output_dir \notin DirsAfterWorkDir
  /\ work_dir' = WorkDirPrepared
  /\ delete_work_dir' = ~WorkDirSet
  /\ mkdtemps' = MkdtempsAfterWorkDir
  /\ dirs' = DirsAfterWorkDir
  /\ existed' = existed \cup (DirsAfterWorkDir \cap CallerDirs)
  /\ prepares' = prepares + 1
  /\ streak' = 0
  /\ last_op' = "PrepareRaised"
  /\ raised' = "OSError"
  /\ \E c \in PrepareCases : c[1] = sdk /\ args' = <<c[2]>>
  /\ closes' = 0
  /\ UNCHANGED <<work_dir_arg, output_dir_arg, output_dir, delete_output_dir,
                 prepared, once, xctestrun_obj, dummy_project_obj,
                 logic_test_bundle, runs>>
  /\ UNCHANGED <<execVars, sessVars, simVars, utilVars>>

\* both directories are handled; then Prepare goes on to `_prepared = True`
\* (returns = TRUE) or raises while it chooses how to run the test
PrepareDirs(returns) ==
  /\ work_dir' = WorkDirPrepared
  /\ delete_work_dir' = ~WorkDirSet
  /\ output_dir' = OutputDirPrepared
  /\ delete_output_dir' = ~OutputDirSet
  /\ mkdtemps' = MkdtempsAfterOutputDir
  /\ dirs' = DirsAfterOutputDir
  /\ existed' = existed \cup (DirsAfterOutputDir \cap CallerDirs)
  /\ prepares' = prepares + 1
  /\ prepared' = (prepared \/ returns)
  /\ streak' = IF returns THEN streak + 1 ELSE 0
  /\ once' = IF returns /\ streak = 0
               THEN <<work_dir', delete_work_dir', output_dir',
                      delete_output_dir'>>
               ELSE once
  /\ UNCHANGED <<work_dir_arg, output_dir_arg, runs>>
  /\ UNCHANGED <<execVars, sessVars, simVars, utilVars>>

\* Prepare returns: the object of the way chosen is set
Prepare ==
  /\ CanPrepare
  /\ \E c \in PrepareCases :
       LET how == c[3] IN
         /\ c[1] = sdk
         /\ how # IllegalArgumentError
         /\ xctestrun_obj' = (xctestrun_obj \/ how = "xctestrun")
         /\ dummy_project_obj' = (dummy_project_obj \/ how = "dummy_project")
         /\ logic_test_bundle' = (logic_test_bundle \/ how = "logic_test")
         /\ args' = <<c[2]>>
  /\ PrepareDirs(TRUE)
  /\ raised' = "none"
  /\ last_op' = "Prepare"
  /\ closes' = 0

\* Prepare raises IllegalArgumentError
PrepareRaises ==
  /\ CanPrepare
  /\ \E c \in PrepareCases :
       /\ c[1] = sdk
       /\ c[3] = IllegalArgumentError
       /\ args' = <<c[2]>>
  /\ PrepareDirs(FALSE)
  /\ raised' = IllegalArgumentError
  /\ last_op' = "PrepareRaised"
  /\ closes' = 0
  /\ UNCHANGED <<xctestrun_obj, dummy_project_obj, logic_test_bundle>>

\* XctestRun(...), GenerateXctestrun() or GenerateDummyProject() raises: the
\* first two before anything is assigned, the last after
\* self._dummy_project_obj has been assigned
PrepareGenerateRaises ==
  /\ CanPrepare
  /\ \E c \in PrepareCases :
       LET how == c[3] IN
         /\ c[1] = sdk
         /\ how \in {"xctestrun", "dummy_project"}
         /\ dummy_project_obj' = (dummy_project_obj \/ how = "dummy_project")
         /\ args' = <<c[2]>>
  /\ PrepareDirs(FALSE)
  /\ raised' = "OtherError"
  /\ last_op' = "PrepareRaised"
  /\ closes' = 0
  /\ UNCHANGED <<xctestrun_obj, logic_test_bundle>>

\* mutant: the test of RunTest and SetLaunchOptions that always passes
IsPreparedUnchecked(p) == TRUE

\* the test `if not self._prepared` of RunTest and SetLaunchOptions
IsPrepared(p) == p

\* the fields of the session that RunTest and SetLaunchOptions leave alone
sessionFields == <<work_dir_arg, output_dir_arg, work_dir, delete_work_dir,
                   output_dir, delete_output_dir, prepared, dirs, existed,
                   mkdtemps, prepares, xctestrun_obj, dummy_project_obj,
                   logic_test_bundle>>

\* SetLaunchOptions: XcodebuildTestError on a session that is not prepared
SetLaunchOptions ==
  /\ last_op # "SetLaunchOptions"
  /\ raised' = IF IsPrepared(prepared) THEN "none" ELSE "XcodebuildTestError"
  /\ last_op' = "SetLaunchOptions"
  /\ args' = <<>>
  /\ streak' = 0
  /\ once' = <<>>
  /\ closes' = 0
  /\ UNCHANGED <<sessionFields, runs>>
  /\ UNCHANGED <<execVars, sessVars, simVars, utilVars>>

\* Execute makes n launches and returns r: the attempts before the last are
\* relaunched, the last one is not
ExecuteReturns(s, n, r) ==
  LET max == MaxAttemptsFor(s) IN
    /\ n \in 1..max
    /\ \E tt \in {XCUITEST, XCTEST}, started \in BOOLEAN,
          succeeded \in BOOLEAN, failed \in BOOLEAN, stuck \in BOOLEAN,
          out \in SUBSET (LinesFor(s) \cap ErrorLines), probe \in Probes :
         /\ r = AttemptResult(s, tt, started, started /\ succeeded,
                              started /\ failed, stuck, out, probe, n - 1, max)
         /\ n > 1 => \E out0 \in SUBSET (LinesFor(s) \cap ErrorLines),
                          probe0 \in Probes :
                       ClassifyNotStarted(s, tt, out0, probe0, n - 2, max)
                         = RELAUNCH
    /\ r # RELAUNCH

\* the exit codes Execute returns, by sdk and number of launches
ExecuteOutcomes ==
  [s \in SUPPORTED_SDKS |->
     [n \in 1..SIM_TEST_MAX_ATTEMPTS |->
        {r \in EXITCODE : ExecuteReturns(s, n, r)}]]

\* RunTest on a session that is not prepared: XcodebuildTestError
RunTestRaises ==
  /\ runs < MaxRunTests
  /\ ~IsPrepared(prepared)
  /\ runs' = runs + 1
  /\ raised' = "XcodebuildTestError"
  /\ last_op' = "RunTest"
  /\ args' = <<>>
  /\ streak' = 0
  /\ once' = <<>>
  /\ closes' = 0
  /\ UNCHANGED sessionFields
  /\ UNCHANGED <<execVars, sessVars, simVars, utilVars>>

\* RunTest on a prepared session: the test is run by the xctestrun object,
\* the dummy project or RunLogicTestOnSim, whichever is set first in this
\* order, and the exit code returned; XcodebuildTestError if none is set
RunTest ==
  /\ runs < MaxRunTests
  /\ IsPrepared(prepared)
  /\ runs' = runs + 1
  /\ IF xctestrun_obj \/ dummy_project_obj
       THEN \E n \in 1..MaxAttemptsFor(sdk) :
              \E r \in ExecuteOutcomes[sdk][n] :
                /\ exit_code' = XctestRunResult(r)
                /\ launches' = launches + n
                /\ raised' = "none"
     ELSE IF logic_test_bundle
       THEN /\ \E return_code_zero \in BOOLEAN :
                 exit_code' = IF return_code_zero THEN SUCCEEDED ELSE FAILED
            /\ launches' = launches + 1
            /\ raised' = "none"
     ELSE /\ raised' = "XcodebuildTestError"
          /\ UNCHANGED <<exit_code, launches>>
  /\ last_op' = "RunTest"
  /\ args' = <<>>
  /\ streak' = 0
  /\ once' = <<>>
  /\ closes' = 0
  /\ UNCHANGED sessionFields
  /\ UNCHANGED <<runTestRest, sessVars, simVars, utilVars>>

\* mutant: the condition of one `if` of Close without os.path.exists
CloseRemovesUnchecked(delete_dir, dir, on_disk) == delete_dir /\ dir # "None"

\* the condition of one `if` of Close
CloseRemoves(delete_dir, dir, on_disk) ==
  delete_dir /\ dir # "None" /\ dir \in on_disk

\* what one `if` of Close gives to shutil.rmtree
Removed(delete_dir, dir, on_disk) ==
  IF CloseRemoves(delete_dir, dir, on_disk) THEN {dir} ELSE {}

\* shutil.rmtree raises for a path that does not exist
RmtreeRaises(paths, on_disk) == ~(paths \subseteq on_disk)

\* Close, also reached through __exit__
Close ==
  /\ closes < MaxCloses
  /\ LET work == Removed(delete_work_dir, work_dir, dirs)
         after_work == dirs \ work
         out == Removed(delete_output_dir, output_dir, after_work)
     IN  IF RmtreeRaises(work, dirs)
           THEN dirs' = dirs /\ last_op' = "CloseRaised"
         ELSE IF RmtreeRaises(out, after_work)
           THEN dirs' = after_work /\ last_op' = "CloseRaised"
         ELSE dirs' = after_work \ out /\ last_op' = "Close"
  /\ raised' = IF last_op' = "CloseRaised" THEN "OSError" ELSE "none"
  /\ args' = <<>>
  /\ closes' = closes + 1
  /\ streak' = 0
  /\ once' = <<>>
  /\ UNCHANGED <<work_dir_arg, output_dir_arg, work_dir, delete_work_dir,
                 output_dir, delete_output_dir, prepared, existed, mkdtemps,
                 prepares, xctestrun_obj, dummy_project_obj,
                 logic_test_bundle, runs>>
  /\ UNCHANGED <<execVars, sessVars, simVars, utilVars>>

DirsNext ==
  \/ PrepareWorkDirRaises
  \/ PrepareOutputDirRaises
  \/ Prepare
  \/ PrepareRaises
  \/ PrepareGenerateRaises
  \/ SetLaunchOptions
  \/ RunTestRaises
  \/ RunTest
  \/ Close

SpecDirs == DirsInit /\ [][DirsNext]_vars

(***************************************************************************)
(* Simulator: one object, the fields it caches, and the simulator's files. *)
(* A result is the value returned, "ok" for None, or the error raised:     *)
(* "SimError", or "IOError" when open() finds no device.plist.             *)
(***************************************************************************)
\* shared/ios_constants.py, SimState
CREATING == "Creating"
SHUTDOWN == "Shutdown"
BOOTED == "Booted"
UNKNOWN_STATE == "Unknown"

StateNums == 0..3

\* mutant: the mapping without state code 0
SIMULATOR_STATES_MAPPING_From1 == [n \in {1, 3} |->
  IF n = 1 THEN SHUTDOWN ELSE BOOTED]

\* _SIMULATOR_STATES_MAPPING
SIMULATOR_STATES_MAPPING == [n \in {0, 1, 3} |->
  IF n = 0 THEN CREATING ELSE IF n = 1 THEN SHUTDOWN ELSE BOOTED]

Errors == {"SimError", "IOError"}

\* Simulator(simulator_id) for a simulator that exists or is being created
SimInit ==
  /\ RunnerIdle
  /\ sdk = IPHONESIMULATOR
  /\ DirsIdle
  /\ UtilIdle
  /\ o_simulator_id = "ID"
  /\ root_dir = FALSE
  /\ log_root_dir = FALSE
  /\ plist_object = FALSE
  /\ plist_exists \in BOOLEAN
  /\ state_num \in (IF plist_exists THEN StateNums ELSE {0})
  /\ log_dir \in BOOLEAN
  /\ delete_running = FALSE
  /\ sim_op = "new"
  /\ sim_result = "none"
  /\ sim_deleted = FALSE
  /\ sim_prev = <<"none", "none">>
  /\ sim_cmd = FALSE
  /\ sim_seen = "none"

\* the property simulator_id raises without self._simulator_id
HasId == o_simulator_id # "None"

\* the property simulator_root_dir: "ok" or "SimError"
RootDirRead == IF root_dir \/ HasId THEN "ok" ELSE "SimError"

\* the property simulator_log_root_dir
LogRootDirRead == IF log_root_dir \/ HasId THEN "ok" ELSE "SimError"

\* the property device_plist_object: "object", "None" or "SimError"
PlistObjectRead ==
  IF plist_object THEN "object"
  ELSE IF RootDirRead = "SimError" THEN "SimError"
  ELSE IF plist_exists THEN "object" ELSE "None"

\* self._simulator_root_dir is set after reading device_plist_object
RootDirAfterPlistRead == root_dir \/ (~plist_object /\ HasId)

\* the result of GetSimulatorState
GetSimulatorStateResult ==
  IF PlistObjectRead = "SimError" THEN "SimError"
  ELSE IF PlistObjectRead = "None" THEN CREATING
  ELSE IF ~plist_exists THEN "IOError"
  ELSE IF state_num \notin DOMAIN SIMULATOR_STATES_MAPPING
    THEN (IF HasId THEN UNKNOWN_STATE ELSE "SimError")
  ELSE SIMULATOR_STATES_MAPPING[state_num]

\* the fields GetSimulatorState leaves set
CachesAfterGetState ==
  /\ root_dir' = RootDirAfterPlistRead
  /\ plist_object' = (PlistObjectRead = "object")
  /\ UNCHANGED log_root_dir

diskVars == <<plist_exists, state_num, log_dir, delete_running>>

GetSimulatorState ==
  /\ sim_op' = "GetSimulatorState"
  /\ sim_prev' = <<sim_op, sim_result>>
  /\ sim_cmd' = FALSE
  /\ sim_seen' = "none"
  /\ sim_result' = GetSimulatorStateResult
  /\ CachesAfterGetState
  /\ UNCHANGED <<o_simulator_id, diskVars, sim_deleted>>
  /\ UNCHANGED <<execVars, sessVars, dirsVars, utilVars>>

\* reading one of the properties
ReadProperty ==
  /\ sim_op' = "read"
  /\ sim_prev' = <<sim_op, sim_result>>
  /\ sim_cmd' = FALSE
  /\ sim_seen' = "none"
  /\ \E property \in {"simulator_id", "simulator_root_dir",
                      "simulator_log_root_dir", "device_plist_object"} :
       CASE property = "simulator_id" ->
              /\ sim_result' = IF HasId THEN "ok" ELSE "SimError"
              /\ UNCHANGED <<root_dir, log_root_dir, plist_object>>
         [] property = "simulator_root_dir" ->
              /\ sim_result' = RootDirRead
              /\ root_dir' = (root_dir \/ HasId)
              /\ UNCHANGED <<log_root_dir, plist_object>>
         [] property = "simulator_log_root_dir" ->
              /\ sim_result' = LogRootDirRead
              /\ log_root_dir' = (log_root_dir \/ HasId)
              /\ UNCHANGED <<root_dir, plist_object>>
         [] OTHER ->
              /\ sim_result' = IF PlistObjectRead = "SimError" THEN "SimError"
                               ELSE "ok"
              /\ root_dir' = RootDirAfterPlistRead
              /\ plist_object' = (PlistObjectRead = "object")
              /\ UNCHANGED log_root_dir
  /\ UNCHANGED <<o_simulator_id, diskVars, sim_deleted>>
  /\ UNCHANGED <<execVars, sessVars, dirsVars, utilVars>>

\* mutant: Shutdown returns after the command without the wait
WaitUntilShutdownResultUnchecked(reaches_shutdown) == "ok"

\* WaitUntilStateShutdown at the end of Shutdown: it returns when it reads
\* SHUTDOWN and raises SimError when the window ends
WaitUntilShutdownResult(reaches_shutdown) ==
  IF reaches_shutdown THEN "ok" ELSE "SimError"

\* Shutdown: the state is read first; `simctl shutdown` is run for a
\* simulator that is neither shut down nor being created.  The command
\* exits with 0, fails with the text 'Unable to shutdown device in current
\* state: Shutdown' (Shutdown returns), or fails otherwise (SimError)
Shutdown ==
  /\ sim_op' = "Shutdown"
  /\ sim_prev' = <<sim_op, sim_result>>
  /\ CachesAfterGetState
  /\ \E simctl \in {"ok", "already_shutdown", "error"},
        reaches_shutdown \in BOOLEAN :
       LET sim_state == GetSimulatorStateResult IN
       IF sim_state \in Errors
         THEN /\ sim_result' = sim_state
              /\ sim_cmd' = FALSE /\ sim_seen' = "none"
              /\ UNCHANGED state_num
       ELSE IF sim_state = CREATING \/ ~HasId
         THEN /\ sim_result' = "SimError"
              /\ sim_cmd' = FALSE /\ sim_seen' = "none"
              /\ UNCHANGED state_num
       ELSE IF sim_state = SHUTDOWN
         THEN /\ sim_result' = "ok"
              /\ sim_cmd' = FALSE /\ sim_seen' = "state"
              /\ UNCHANGED state_num
       ELSE IF simctl = "error"
         THEN /\ sim_result' = "SimError"
              /\ sim_cmd' = TRUE /\ sim_seen' = "none"
              /\ UNCHANGED state_num
       ELSE IF simctl = "already_shutdown"
         THEN /\ sim_result' = "ok"
              /\ sim_cmd' = TRUE /\ sim_seen' = "text"
              /\ state_num' = 1
       ELSE /\ sim_result' = WaitUntilShutdownResult(reaches_shutdown)
            /\ sim_cmd' = TRUE
            /\ sim_seen' = IF reaches_shutdown THEN "state" ELSE "none"
            /\ state_num' = IF reaches_shutdown THEN 1 ELSE state_num
  /\ UNCHANGED <<o_simulator_id, plist_exists, log_dir, delete_running,
                 sim_deleted>>
  /\ UNCHANGED <<execVars, sessVars, dirsVars, utilVars>>

\* Boot: `simctl boot`, then WaitUntilStateBooted reads the state
Boot ==
  /\ sim_op' = "Boot"
  /\ sim_prev' = <<sim_op, sim_result>>
  /\ sim_cmd' = FALSE
  /\ sim_seen' = "none"
  /\ \E simctl_ok \in BOOLEAN :
       IF HasId /\ simctl_ok /\ plist_exists
         THEN /\ sim_result' = "ok"
              /\ state_num' = 3
              /\ CachesAfterGetState
         ELSE /\ sim_result' = "SimError"
              /\ UNCHANGED <<state_num, root_dir, log_root_dir, plist_object>>
  /\ UNCHANGED <<o_simulator_id, plist_exists, log_dir, delete_running,
                 sim_deleted>>
  /\ UNCHANGED <<execVars, sessVars, dirsVars, utilVars>>

\* Delete: `simctl delete` is started (asynchronously) or run to its end;
\* then the log directory is removed and self._simulator_id set to None
Delete ==
  /\ sim_op' = "Delete"
  /\ sim_prev' = <<sim_op, sim_result>>
  /\ sim_cmd' = FALSE
  /\ sim_seen' = "none"
  /\ \E asynchronously \in BOOLEAN, simctl_ok \in BOOLEAN :
       IF ~HasId \/ (~asynchronously /\ ~simctl_ok)
         THEN /\ sim_result' = "SimError"
              /\ UNCHANGED <<o_simulator_id, log_root_dir, diskVars,
                             sim_deleted>>
         ELSE /\ sim_result' = "ok"
              /\ delete_running' = (delete_running \/ asynchronously)
              /\ plist_exists' = (plist_exists /\ asynchronously)
              /\ state_num' = IF plist_exists /\ asynchronously
                                THEN state_num ELSE 0
              /\ log_root_dir' = TRUE
              /\ log_dir' = FALSE
              /\ o_simulator_id' = "None"
              /\ sim_deleted' = TRUE
  /\ UNCHANGED <<root_dir, plist_object>>
  /\ UNCHANGED <<execVars, sessVars, dirsVars, utilVars>>

\* the `simctl delete` started by Delete ends, with the simulator's files
\* removed or not
SimctlDeleteEnds ==
  /\ delete_running
  /\ delete_running' = FALSE
  /\ \E removed \in BOOLEAN :
       /\ plist_exists' = (plist_exists /\ ~removed)
       /\ state_num' = IF plist_exists /\ ~removed THEN state_num ELSE 0
  /\ UNCHANGED <<o_simulator_id, root_dir, log_root_dir, plist_object,
                 log_dir, sim_op, sim_result, sim_deleted, sim_prev,
                 sim_cmd, sim_seen>>
  /\ UNCHANGED <<execVars, sessVars, dirsVars, utilVars>>

SimNext ==
  \/ GetSimulatorState
  \/ ReadProperty
  \/ Shutdown
  \/ Boot
  \/ Delete
  \/ SimctlDeleteEnds

SpecSim == SimInit /\ [][SimNext]_vars

(***************************************************************************)
(* CreateNewSimulator: the loop that creates a simulator, waits for state  *)
(* SHUTDOWN and deletes a simulator that did not reach it.  Two versions   *)
(* of Simulator.Delete are in the repository: the one of                   *)
(* simulator_control/simulator_util.py starts `simctl delete` and goes on, *)
(* the one of SimulatorControl/simulator_util.py reads the state first and *)
(* raises SimError unless it is SHUTDOWN.  delete_checks_state says which  *)
(* one the call uses.                                                      *)
(***************************************************************************)
SIM_OPERATION_MAX_ATTEMPTS == 3
SIMCTL_MAX_ATTEMPTS == 2

\* the number of state checks WaitUntilStateShutdown makes in its window
MaxPolls == 2

CreateInit ==
  /\ RunnerIdle
  /\ sdk = IPHONESIMULATOR
  /\ DirsIdle
  /\ SimIdle
  /\ SimctlIdle
  /\ LogicIdle
  /\ TypeIdle
  /\ VerIdle
  /\ delete_checks_state \in BOOLEAN
  /\ create_pc = "create"
  /\ create_i = 0
  /\ new_simulators = <<>>
  /\ creates = 0
  /\ create_runs = 0
  /\ polls_left = 0
  /\ create_result = "none"
  /\ new_simulator_id = 0

createRest == <<execVars, sessVars, dirsVars, simVars, simctlVars,
                logicVars, typeVars, verVars>>

\* the simulator made by the last create command
NewSimulator == new_simulators[Len(new_simulators)]

\* the create command: RunSimctlCommand runs `simctl create` once or twice,
\* subprocess.check_output (SimulatorControl) once; on failure SimError
\* (CalledProcessError from check_output) leaves the function
SimctlCreate ==
  /\ create_pc = "create"
  /\ creates' = creates + 1
  /\ \E executed \in 1..(IF delete_checks_state THEN 1
                         ELSE SIMCTL_MAX_ATTEMPTS) :
       create_runs' = create_runs + executed
  /\ \E created_ok \in BOOLEAN :
       IF created_ok
         THEN /\ new_simulators' =
                   Append(new_simulators,
                          [state |-> CREATING, timed_out |-> FALSE,
                           deletion |-> "none"])
              /\ polls_left' = MaxPolls
              /\ create_pc' = "wait"
              /\ UNCHANGED create_result
         ELSE /\ create_result' = IF delete_checks_state
                                    THEN "CalledProcessError" ELSE "SimError"
              /\ create_pc' = "done"
              /\ UNCHANGED <<new_simulators, polls_left>>
  /\ UNCHANGED <<delete_checks_state, create_i, new_simulator_id>>
  /\ UNCHANGED createRest

\* CoreSimulator finishes creating a simulator: its state becomes SHUTDOWN
SimulatorBecomesShutdown ==
  /\ create_pc # "done"
  /\ \E k \in 1..Len(new_simulators) :
       /\ new_simulators[k].state = CREATING
       /\ new_simulators[k].deletion # "done"
       /\ new_simulators' =
            [new_simulators EXCEPT ![k].state = SHUTDOWN]
  /\ UNCHANGED <<delete_checks_state, create_pc, create_i, creates,
                 create_runs, polls_left, create_result, new_simulator_id>>
  /\ UNCHANGED createRest

\* one state check of WaitUntilStateShutdown: it returns when it reads
\* SHUTDOWN, and CreateNewSimulator returns the identity; after the last
\* check of the window it raises SimError, which CreateNewSimulator catches
WaitUntilStateShutdown ==
  /\ create_pc = "wait"
  /\ IF NewSimulator.state = SHUTDOWN
       THEN /\ create_result' = "returned"
            /\ new_simulator_id' = Len(new_simulators)
            /\ create_pc' = "done"
            /\ UNCHANGED <<polls_left, new_simulators>>
     ELSE IF polls_left > 1
       THEN /\ polls_left' = polls_left - 1
            /\ UNCHANGED <<create_pc, create_result, new_simulator_id,
                           new_simulators>>
     ELSE /\ polls_left' = 0
          /\ new_simulators' =
               [new_simulators EXCEPT ![Len(new_simulators)].timed_out = TRUE]
          /\ create_pc' = "delete"
          /\ UNCHANGED <<create_result, new_simulator_id>>
  /\ UNCHANGED <<delete_checks_state, create_i, creates, create_runs>>
  /\ UNCHANGED createRest

\* Delete of simulator_control/simulator_util.py: `simctl delete` is started
\* with Popen and not waited for
DeleteStarts(sim) == [sim EXCEPT !.deletion = "started"]

\* the handler of the SimError of WaitUntilStateShutdown: Delete, then the
\* next turn of the loop, or SimError after the last one
DeleteHalfCreated ==
  /\ create_pc = "delete"
  /\ \E delete_ok \in BOOLEAN :
       LET last == Len(new_simulators)
           goes_on(sims) ==
             /\ new_simulators' = sims
             /\ create_i' = create_i + 1
             /\ IF create_i # SIM_OPERATION_MAX_ATTEMPTS - 1
                  THEN create_pc' = "create" /\ UNCHANGED create_result
                  ELSE create_pc' = "done" /\ create_result' = "SimError"
           raises(error) ==
             /\ create_result' = error
             /\ create_pc' = "done"
             /\ UNCHANGED <<new_simulators, create_i>>
       IN  IF ~delete_checks_state
             THEN goes_on([new_simulators EXCEPT
                             ![last] = DeleteStarts(NewSimulator)])
           ELSE IF NewSimulator.state # SHUTDOWN
             THEN raises("SimError")
           ELSE IF delete_ok
             THEN goes_on([new_simulators EXCEPT ![last].deletion = "done"])
           ELSE raises("CalledProcessError")
  /\ UNCHANGED <<delete_checks_state, creates, create_runs, polls_left,
                 new_simulator_id>>
  /\ UNCHANGED createRest

\* a `simctl delete` started by Delete ends, with the simulator deleted or
\* not
StartedDeleteEnds ==
  /\ \E k \in 1..Len(new_simulators), deleted_ok \in BOOLEAN :
       /\ new_simulators[k].deletion = "started"
       /\ new_simulators' =
            [new_simulators EXCEPT
               ![k].deletion = IF deleted_ok THEN "done" ELSE "failed"]
  /\ UNCHANGED <<delete_checks_state, create_pc, create_i, creates,
                 create_runs, polls_left, create_result, new_simulator_id>>
  /\ UNCHANGED createRest

CreateNext ==
  \/ SimctlCreate
  \/ SimulatorBecomesShutdown
  \/ WaitUntilStateShutdown
  \/ DeleteHalfCreated
  \/ StartedDeleteEnds

SpecCreate == CreateInit /\ [][CreateNext]_vars

(***************************************************************************)
(* RunSimctlCommand.  What a run of the command writes is a set of texts   *)
(* per stream; an output is the set of <<stream, text>> it is made of.     *)
(***************************************************************************)
\* shared/ios_constants.py
CORESIMULATOR_INTERRUPTED_ERROR == "CoreSimulatorService connection interrupted"
CORESIMULATOR_CHANGE_ERROR ==
  "CoreSimulator detected Xcode.app relocation or CoreSimulatorService version change."

\* what a run may write to stdout and to stderr
StdoutTexts == {"text", CORESIMULATOR_INTERRUPTED_ERROR}
StderrTexts == {"error", CORESIMULATOR_INTERRUPTED_ERROR,
                CORESIMULATOR_CHANGE_ERROR}

\* the text of one stream
StreamText(stream, texts) == {<<stream, t>> : t \in texts}

\* `text in output`
InOutput(text, out) == \E part \in out : part[2] = text

\* mutant: the output is always stdout and stderr joined
SimctlOutputJoined(stdout, stderr) ==
  StreamText("stdout", stdout) \cup StreamText("stderr", stderr)

\* the output of a run: stdout alone when stderr holds the relocation text,
\* else stdout and stderr joined
SimctlOutput(stdout, stderr) ==
  IF CORESIMULATOR_CHANGE_ERROR \in stderr
    THEN StreamText("stdout", stdout)
    ELSE StreamText("stdout", stdout) \cup StreamText("stderr", stderr)

\* mutant: every failed run before the last is run again
SimctlRunsAgainOnAnyError(idx, out) == idx < SIMCTL_MAX_ATTEMPTS - 1

\* the test before `continue`
SimctlRunsAgain(idx, out) ==
  /\ idx < SIMCTL_MAX_ATTEMPTS - 1
  /\ InOutput(CORESIMULATOR_INTERRUPTED_ERROR, out)

SimctlInit ==
  /\ RunnerIdle
  /\ sdk = IPHONESIMULATOR
  /\ DirsIdle
  /\ SimIdle
  /\ CreateIdle
  /\ LogicIdle
  /\ TypeIdle
  /\ VerIdle
  /\ simctl_pc = "run"
  /\ simctl_i = 0
  /\ simctl_runs = <<>>
  /\ simctl_result = <<"none">>

\* one turn of the loop: the command is run to its end; its output is
\* returned when it exited with 0; otherwise the loop goes on or SimError is
\* raised with the output
RunSimctlCommand ==
  /\ simctl_pc = "run"
  /\ \E stdout \in SUBSET StdoutTexts, stderr \in SUBSET StderrTexts,
        status \in {0, 1} :
       LET out == SimctlOutput(stdout, stderr) IN
         /\ simctl_runs' =
              Append(simctl_runs, [stdout |-> stdout, stderr |-> stderr,
                                   status |-> status])
         /\ IF status # 0
              THEN IF SimctlRunsAgain(simctl_i, out)
                     THEN /\ simctl_i' = simctl_i + 1
                          /\ IF simctl_i + 1 < SIMCTL_MAX_ATTEMPTS
                               THEN /\ simctl_pc' = "run"
                                    /\ UNCHANGED simctl_result
                               ELSE /\ simctl_pc' = "done"
                                    /\ simctl_result' = <<"returned", "None">>
                     ELSE /\ simctl_result' = <<"SimError", out>>
                          /\ simctl_pc' = "done"
                          /\ UNCHANGED simctl_i
              ELSE /\ simctl_result' = <<"returned", out>>
                   /\ simctl_pc' = "done"
                   /\ UNCHANGED simctl_i
  /\ UNCHANGED <<execVars, sessVars, dirsVars, simVars, createVars,
                 logicVars, typeVars, verVars>>

SimctlNext == RunSimctlCommand

SpecSimctl == SimctlInit /\ [][SimctlNext]_vars

(***************************************************************************)
(* RunLogicTestOnSim: the environment of the child.  A dict is a function  *)
(* from its keys.                                                          *)
(***************************************************************************)
SIMCTL_ENV_VAR_PREFIX == "SIMCTL_CHILD_"

\* shared/ios_constants.py, ARCH
X86_64 == "x86_64"
ARM64 == "arm64"

\* the keys and values a caller may give in env_vars
EnvKeys == {"KEY", "DYLD_FALLBACK_LIBRARY_PATH",
            "DYLD_FALLBACK_FRAMEWORK_PATH"}
EnvValues == {"value", "other"}

\* the dicts over these keys
EnvDicts == UNION {[keys -> EnvValues] : keys \in SUBSET EnvKeys}

\* version_util.GetVersionNumber for the versions used
GetVersionNumber(version) ==
  CASE version = "12.1" -> 1210
    [] version = "12.2" -> 1220

\* d[key] = value
SetItem(d, key, value) ==
  [k \in DOMAIN d \cup {key} |-> IF k = key THEN value ELSE d[k]]

\* the loop over env_vars: each key is given the prefix
WithPrefix(d) ==
  [p \in {SIMCTL_ENV_VAR_PREFIX \o key : key \in DOMAIN d} |->
     d[CHOOSE key \in DOMAIN d : SIMCTL_ENV_VAR_PREFIX \o key = p]]

\* simctl_env_vars when Popen is called
SimctlEnvVars(given, os, xcode, dev_dir, archs) ==
  LET user == IF given # EmptyDict THEN WithPrefix(given) ELSE EmptyDict
      unbuffered == SetItem(user, "NSUnbufferedIO", "YES")
      swift5 ==
        IF xcode >= 1100 /\ os # "None" /\ GetVersionNumber(os) < 1220
          THEN SetItem(unbuffered,
                       SIMCTL_ENV_VAR_PREFIX \o "DYLD_FALLBACK_LIBRARY_PATH",
                       "Swift5FallbackLibsDir")
          ELSE unbuffered
      developer ==
        IF dev_dir # "None" THEN SetItem(swift5, "DEVELOPER_DIR", dev_dir)
        ELSE swift5
  IN  IF X86_64 \in archs
        THEN SetItem(
               SetItem(developer,
                       SIMCTL_ENV_VAR_PREFIX \o "DYLD_FALLBACK_LIBRARY_PATH",
                       "platform/Developer/usr/lib"),
               SIMCTL_ENV_VAR_PREFIX \o "DYLD_FALLBACK_FRAMEWORK_PATH",
               "platform/Developer/Library/Frameworks")
        ELSE developer

LogicInit ==
  /\ RunnerIdle
  /\ sdk = IPHONESIMULATOR
  /\ DirsIdle
  /\ SimIdle
  /\ CreateIdle
  /\ SimctlIdle
  /\ TypeIdle
  /\ VerIdle
  /\ logic_pc = "call"
  /\ env_vars \in EnvDicts
  /\ os_version \in {"None", "12.1", "12.2"}
  /\ xcode_version_number \in {1099, 1100}
  /\ developer_dir \in {"None", "/Xcode/Developer"}
  /\ test_archs \in {{ARM64}, {X86_64}, {ARM64, X86_64}}
  /\ simctl_env_vars = EmptyDict
  /\ logic_exit = NoCode

\* RunLogicTestOnSim: the child is started with env = simctl_env_vars and
\* waited for; its return code gives the exit code
RunLogicTestOnSim ==
  /\ logic_pc = "call"
  /\ simctl_env_vars' = SimctlEnvVars(env_vars, os_version,
                                      xcode_version_number, developer_dir,
                                      test_archs)
  /\ \E return_code \in {0, 1} :
       logic_exit' = IF return_code # 0 THEN FAILED ELSE SUCCEEDED
  /\ logic_pc' = "done"
  /\ UNCHANGED <<env_vars, os_version, xcode_version_number, developer_dir,
                 test_archs>>
  /\ UNCHANGED <<execVars, sessVars, dirsVars, simVars, createVars,
                 simctlVars, typeVars, verVars>>

LogicNext == RunLogicTestOnSim

SpecLogic == LogicInit /\ [][LogicNext]_vars

(***************************************************************************)
(* Claims about RunLogicTestOnSim (specification SpecLogic).               *)
(***************************************************************************)
\* C28: the environment of the child holds SIMCTL_CHILD_<K> with the value
\* given for K, for every key K of env_vars, and NSUnbufferedIO = YES
C28_ChildEnvHoldsSuppliedVars ==
  logic_pc = "done" =>
    /\ \A key \in DOMAIN env_vars :
         /\ SIMCTL_ENV_VAR_PREFIX \o key \in DOMAIN simctl_env_vars
         /\ simctl_env_vars[SIMCTL_ENV_VAR_PREFIX \o key] = env_vars[key]
    /\ "NSUnbufferedIO" \in DOMAIN simctl_env_vars
    /\ simctl_env_vars["NSUnbufferedIO"] = "YES"

(***************************************************************************)
(* GetLastSupportedIphoneSimType.  OS versions are floats in the code and  *)
(* hundredths here.                                                        *)
(***************************************************************************)
\* the longest list of device types
MaxTypes == 3

\* the device types that may be listed, with the minRuntimeVersion and
\* maxRuntimeVersion of their profiles (has_max is false without the field)
SimTypeProfile ==
  [t \in {"iPhone 6s Plus", "iPhone X", "iPhone 14 Pro", "iPhone 16 Pro",
          "iPad Pro", "Apple Watch Series 9"} |->
     CASE t = "iPhone 6s Plus" ->
            [min_os_version |-> 900, has_max |-> TRUE, max_os_version |-> 1599]
       [] t = "iPhone X" ->
            [min_os_version |-> 1100, has_max |-> TRUE,
             max_os_version |-> 1699]
       [] t = "iPhone 14 Pro" ->
            [min_os_version |-> 1600, has_max |-> FALSE, max_os_version |-> 0]
       [] t = "iPhone 16 Pro" ->
            [min_os_version |-> 1800, has_max |-> FALSE, max_os_version |-> 0]
       [] t = "iPad Pro" ->
            [min_os_version |-> 900, has_max |-> FALSE, max_os_version |-> 0]
       [] OTHER ->
            [min_os_version |-> 900, has_max |-> FALSE, max_os_version |-> 0]]

SimTypes == DOMAIN SimTypeProfile

\* the lists GetSupportedSimDeviceTypes may return: no type twice
SimTypeLists ==
  {l \in UNION {[1..n -> SimTypes] : n \in 0..MaxTypes} :
     \A a, b \in DOMAIN l : l[a] = l[b] => a = b}

\* float(os_version) for the versions asked for
Float(version) ==
  CASE version = "9.0" -> 900
    [] version = "16.0" -> 1600
    [] version = "18.5" -> 1850
    [] version = "25.0" -> 2500

OsVersions == {"9.0", "16.0", "18.5", "25.0"}

\* sim_type.startswith('iPhone')
StartsWithIphone(sim_type) ==
  Len(sim_type) >= 6 /\ SubSeq(sim_type, 1, 6) = "iPhone"

\* list.reverse()
Reverse(l) == [k \in 1..Len(l) |-> l[Len(l) + 1 - k]]

\* the loop over the reversed list: the first iPhone whose min_os_version is
\* not above the version, SimError after the loop
RECURSIVE FirstSupportedIphone(_, _)
FirstSupportedIphone(l, os_version_float) ==
  IF l = <<>> THEN "SimError"
  ELSE IF /\ StartsWithIphone(Head(l))
          /\ os_version_float >= SimTypeProfile[Head(l)].min_os_version
    THEN Head(l)
  ELSE FirstSupportedIphone(Tail(l), os_version_float)

TypeInit ==
  /\ RunnerIdle
  /\ sdk = IPHONESIMULATOR
  /\ DirsIdle
  /\ SimIdle
  /\ CreateIdle
  /\ SimctlIdle
  /\ LogicIdle
  /\ VerIdle
  /\ type_pc = "call"
  /\ supported_sim_types \in SimTypeLists
  /\ requested_os_version \in OsVersions
  /\ sim_type_result = "none"

GetLastSupportedIphoneSimType ==
  /\ type_pc = "call"
  /\ sim_type_result' =
       FirstSupportedIphone(Reverse(supported_sim_types),
                            Float(requested_os_version))
  /\ type_pc' = "done"
  /\ UNCHANGED <<supported_sim_types, requested_os_version>>
  /\ UNCHANGED <<execVars, sessVars, dirsVars, simVars, createVars,
                 simctlVars, logicVars, verVars>>

TypeNext == GetLastSupportedIphoneSimType

SpecSimType == TypeInit /\ [][TypeNext]_vars

(***************************************************************************)
(* Claims about GetLastSupportedIphoneSimType (specification SpecSimType). *)
(***************************************************************************)
\* the device types listed
ListedTypes == {supported_sim_types[k] : k \in DOMAIN supported_sim_types}

\* the requested version is within the range the type supports
InSupportedRange(t) ==
  /\ Float(requested_os_version) >= SimTypeProfile[t].min_os_version
  /\ SimTypeProfile[t].has_max =>
       Float(requested_os_version) <= SimTypeProfile[t].max_os_version

\* C29: the type returned has no maximum OS version below the requested
\* version, and SimError is raised when the requested version is outside the
\* supported range of every listed iPhone
C29_MaxOsVersionRespected ==
  type_pc = "done" =>
    /\ sim_type_result # "SimError" =>
         ~(/\ SimTypeProfile[sim_type_result].has_max
           /\ SimTypeProfile[sim_type_result].max_os_version
                < Float(requested_os_version))
    /\ (\A t \in ListedTypes : StartsWithIphone(t) => ~InSupportedRange(t))
         => sim_type_result = "SimError"

\* the order in which the iPhones listed were released
ReleaseOrder(t) ==
  CASE t = "iPhone 6s Plus" -> 1
    [] t = "iPhone X" -> 2
    [] t = "iPhone 14 Pro" -> 3
    [] t = "iPhone 16 Pro" -> 4

\* the listed iPhones whose minimum OS version is at most the requested one
IphonesWithMinAtMost ==
  {t \in ListedTypes :
     /\ StartsWithIphone(t)
     /\ SimTypeProfile[t].min_os_version <= Float(requested_os_version)}

\* C30: the type returned is the newest listed iPhone whose minimum OS
\* version is at most the requested version; no iPad, Watch or TV type is
\* returned; SimError is raised when no iPhone is listed
C30_NewestIphoneReturned ==
  type_pc = "done" =>
    /\ IphonesWithMinAtMost # {} =>
         /\ sim_type_result \in IphonesWithMinAtMost
         /\ \A t \in IphonesWithMinAtMost :
              ReleaseOrder(t) <= ReleaseOrder(sim_type_result)
    /\ sim_type_result # "SimError" => StartsWithIphone(sim_type_result)
    /\ (\A t \in ListedTypes : ~StartsWithIphone(t))
         => sim_type_result = "SimError"

(***************************************************************************)
(* GetLastSupportedSimOsVersion.  GetSupportedSimOsVersions keeps the      *)
(* runtimes in the order `simctl list runtimes` gives them, oldest first   *)
(* (its docstring; the comment of line 574).                               *)
(***************************************************************************)
\* the longest list of OS versions
MaxVersions == 4

\* the OS versions `simctl list runtimes` may name, and float(os_version)
FloatOf ==
  [v \in {"12.4", "13.7", "15.5", "16.0", "17.2", "18.5"} |->
     CASE v = "12.4" -> 1240
       [] v = "13.7" -> 1370
       [] v = "15.5" -> 1550
       [] v = "16.0" -> 1600
       [] v = "17.2" -> 1720
       [] OTHER -> 1850]

SimOsVersions == DOMAIN FloatOf

\* the lists GetSupportedSimOsVersions may return
SimOsVersionLists ==
  {l \in UNION {[1..n -> SimOsVersions] : n \in 0..MaxVersions} :
     \A a, b \in DOMAIN l : a < b => FloatOf[l[a]] < FloatOf[l[b]]}

\* the list the loop runs over when it is left as listed
SupportedAsListed(l) == l

\* supported_os_versions.reverse(): from latest to older
SupportedFromLatest(l) == Reverse(l)

\* the loop of lines 579-581: the first version not above max_os_version,
\* IllegalArgumentError after the loop
RECURSIVE FirstWithinMax(_, _)
FirstWithinMax(l, max_os_version) ==
  IF l = <<>> THEN "IllegalArgumentError"
  ELSE IF FloatOf[Head(l)] <= max_os_version THEN Head(l)
  ELSE FirstWithinMax(Tail(l), max_os_version)

\* what GetLastSupportedSimOsVersion returns or raises
LastSupportedSimOsVersion(l, type) ==
  IF l = <<>> THEN "SimError"
  ELSE IF type = "None" THEN l[Len(l)]
  ELSE IF ~SimTypeProfile[type].has_max THEN SupportedFromLatest(l)[1]
  ELSE FirstWithinMax(SupportedFromLatest(l),
                      SimTypeProfile[type].max_os_version)

OsInit ==
  /\ RunnerIdle
  /\ sdk = IPHONESIMULATOR
  /\ DirsIdle
  /\ SimIdle
  /\ CreateIdle
  /\ SimctlIdle
  /\ LogicIdle
  /\ TypeIdle
  /\ CacheIdle
  /\ ExtraIdle
  /\ PackIdle
  /\ os_pc = "call"
  /\ supported_os_versions \in SimOsVersionLists
  /\ device_type \in SimTypes \cup {"None"}
  /\ last_os_version = "none"

GetLastSupportedSimOsVersion ==
  /\ os_pc = "call"
  /\ last_os_version' =
       LastSupportedSimOsVersion(supported_os_versions, device_type)
  /\ os_pc' = "done"
  /\ UNCHANGED <<supported_os_versions, device_type>>
  /\ UNCHANGED <<execVars, sessVars, dirsVars, simVars, createVars,
                 simctlVars, logicVars, typeVars, cacheVars, extraVars,
                 packVars>>

OsNext == GetLastSupportedSimOsVersion

SpecSimOs == OsInit /\ [][OsNext]_vars

(***************************************************************************)
(* Claims about GetLastSupportedSimOsVersion (specification SpecSimOs).    *)
(***************************************************************************)
\* the versions listed
ListedOsVersions ==
  {supported_os_versions[k] : k \in DOMAIN supported_os_versions}

\* the listed versions that do not exceed the device type's maximum
OsVersionsWithinMax ==
  {v \in ListedOsVersions :
     SimTypeProfile[device_type].has_max =>
       FloatOf[v] <= SimTypeProfile[device_type].max_os_version}

MaxPaths == 3

\* the paths a line of the child may name, and group(1) of the pattern
\* '(%s/[a-z0-9]+)/' on each, none when the pattern does not match
PatternMatch ==
  [t \in {"E/a1/f", "E/b2/f", "E/c3/f", "E/a1", "T/a1/f"} |->
     CASE t = "E/a1/f" -> "E/a1"
       [] t = "E/b2/f" -> "E/b2"
       [] t = "E/c3/f" -> "E/c3"
       [] OTHER -> "none"]

PathTexts == UNION {[1..n -> DOMAIN PatternMatch] : n \in 0..MaxPaths}

\* the directories there may be on disk
CacheDirs == {"E/a1", "E/b2", "E/c3", "T/a1"}

\* the condition of line 192: a line is written to the buffer when
\* return_output is true or the test has not started; before is the number
\* of paths the child wrote ahead of the line with the test-started signal
CapturedOutput(child_output, started, before, ret_output) ==
  IF ret_output \/ ~started THEN child_output
  ELSE SubSeq(child_output, 1, before)

\* mutant: two directories whatever the test type
MaxCacheDirNumTwo(tt) == 2

\* max_cache_dir_num of _DeleteTestCacheFileDirs
MaxCacheDirNum(tt) == IF tt = XCUITEST THEN 2 ELSE 1

\* the while loop of _FetchTestCacheFileDirs
RECURSIVE FetchTestCacheFileDirs(_, _, _)
FetchTestCacheFileDirs(text, cache_file_dirs, max_dir_num) ==
  IF text = <<>> \/ Cardinality(cache_file_dirs) >= max_dir_num
    THEN cache_file_dirs
  ELSE IF PatternMatch[Head(text)] = "none"
    THEN FetchTestCacheFileDirs(Tail(text), cache_file_dirs, max_dir_num)
  ELSE FetchTestCacheFileDirs(Tail(text),
         cache_file_dirs \cup {PatternMatch[Head(text)]}, max_dir_num)

\* the directories _DeleteTestCacheFileDirs gives to shutil.rmtree
DeleteTestCacheFileDirs(text, s, tt, on_disk) ==
  IF s = IPHONEOS
    THEN FetchTestCacheFileDirs(text, {}, MaxCacheDirNum(tt)) \cap on_disk
  ELSE {}

\* the error texts one child leaves in the output
OutputsFor(s) ==
  {{}} \cup {{e} : e \in IF s = IPHONEOS THEN DeviceErrorLines
                         ELSE SimErrorLines}

\* the call of _ReadFileTailInShell is reached
ReadsSimLogTail(s, tt, started, stuck, out) ==
  /\ s = IPHONESIMULATOR
  /\ ~started
  /\ ~stuck
  /\ ~NeedRebootSim(tt, out)
  /\ ~NeedRecreateSim(out)

CacheInit ==
  /\ ReaderIdle
  /\ sdk \in SUPPORTED_SDKS
  /\ test_type \in IF sdk = IPHONEOS THEN {XCTEST, XCUITEST}
                   ELSE SUPPORTED_TEST_TYPES
  /\ return_output \in BOOLEAN
  /\ DirsIdle
  /\ SimIdle
  /\ CreateIdle
  /\ SimctlIdle
  /\ LogicIdle
  /\ TypeIdle
  /\ OsIdle
  /\ ExtraIdle
  /\ PackIdle
  /\ cache_pc = "launch"
  /\ cache_i = 0
  /\ xcodebuild_test_output = <<>>
  /\ cache_dirs \in {CacheDirs, CacheDirs \ {"E/a1"}}
  /\ removed_dirs = {}
  /\ cache_attempts = 0
  /\ cleanups = 0
  /\ try_outcome = NoCode
  /\ cache_result = NoCode

cacheRest == <<execVars, sessVars, dirsVars, simVars, createVars, simctlVars,
               logicVars, typeVars, osVars, extraVars, packVars>>

\* what the reader loop and the watchdog leave behind when the test has
\* started
StartedCases ==
  {[started |-> TRUE, succeeded |-> a, failed |-> b, stuck |-> FALSE,
    out |-> {}, probe |-> {}] : a, b \in BOOLEAN}

\* ... and when it has not
NotStartedCases(s) ==
  {[started |-> FALSE, succeeded |-> FALSE, failed |-> FALSE, stuck |-> k,
    out |-> o, probe |-> p] :
     k \in BOOLEAN, o \in OutputsFor(s),
     p \in IF s = IPHONEOS THEN {{}} ELSE {{}, {"crash"}}}

\* one turn of the for loop up to the finally clause: the child is launched,
\* its output is read to the end and the try block is run
CacheTry ==
  /\ cache_pc = "launch"
  /\ \E child_output \in PathTexts,
        c \in StartedCases \cup NotStartedCases(sdk),
        tail_raises \in BOOLEAN :
       \E before \in 0..(IF c.started THEN Len(child_output) ELSE 0) :
         /\ tail_raises =>
              ReadsSimLogTail(sdk, test_type, c.started, c.stuck, c.out)
         /\ xcodebuild_test_output' =
              CapturedOutput(child_output, c.started, before, return_output)
         /\ try_outcome' =
              IF tail_raises THEN RAISED
              ELSE AttemptResult(sdk, test_type, c.started, c.succeeded,
                                 c.failed, c.stuck, c.out, c.probe, cache_i,
                                 MaxAttemptsFor(sdk))
  /\ cache_attempts' = cache_attempts + 1
  /\ cache_pc' = "finally"
  /\ UNCHANGED <<cache_i, cache_dirs, removed_dirs, cleanups, cache_result>>
  /\ UNCHANGED cacheRest

\* the finally clause: _DeleteTestCacheFileDirs; an error of shutil.rmtree
\* takes the place of what the try block did
CacheFinally ==
  /\ cache_pc = "finally"
  /\ cleanups' = cleanups + 1
  /\ LET dirs_given == DeleteTestCacheFileDirs(xcodebuild_test_output, sdk,
                                               test_type, cache_dirs)
     IN  \E rmtree_raises \in BOOLEAN :
           /\ rmtree_raises => dirs_given # {}
           /\ IF rmtree_raises
                THEN /\ removed_dirs' \in SUBSET dirs_given \ {dirs_given}
                     /\ try_outcome' = RAISED
                ELSE /\ removed_dirs' = dirs_given
                     /\ UNCHANGED try_outcome
  /\ cache_dirs' = cache_dirs \ removed_dirs'
  /\ cache_pc' = "leave"
  /\ UNCHANGED <<cache_i, xcodebuild_test_output, cache_attempts,
                 cache_result>>
  /\ UNCHANGED cacheRest

\* after the finally clause the return, the continue or the exception takes
\* effect; the next turn of the loop starts with a new output buffer
CacheLeave ==
  /\ cache_pc = "leave"
  /\ IF try_outcome = RELAUNCH
       THEN /\ cache_i' = cache_i + 1
            /\ cache_pc' = "launch"
            /\ xcodebuild_test_output' = <<>>
            /\ removed_dirs' = {}
            /\ UNCHANGED cache_result
       ELSE /\ cache_result' = try_outcome
            /\ cache_pc' = "done"
            /\ UNCHANGED <<cache_i, xcodebuild_test_output, removed_dirs>>
  /\ UNCHANGED <<cache_dirs, cache_attempts, cleanups, try_outcome>>
  /\ UNCHANGED cacheRest

CacheNext == CacheTry \/ CacheFinally \/ CacheLeave

SpecCache == CacheInit /\ [][CacheNext]_vars

(***************************************************************************)
(* Claims about the cache cleanup (specification SpecCache).               *)
(***************************************************************************)
\* the directories directly under the cache directory that the captured
\* output names
NamedCacheDirs ==
  {PatternMatch[xcodebuild_test_output[k]] :
     k \in DOMAIN xcodebuild_test_output} \cap {"E/a1", "E/b2", "E/c3"}

ProfileMajors == {9, 12, 16, 65535}
ProfileMinors == {0, 3, 4, 9, 10, 99, 255}
ProfilePatches == {0, 255}

ProfileVersionStrs ==
  {<<a>> : a \in ProfileMajors}
    \cup {<<a, b>> : a \in ProfileMajors, b \in ProfileMinors}
    \cup {<<a, b, c>> : a \in ProfileMajors, b \in ProfileMinors,
                        c \in ProfilePatches}

\* float('<major>.<minor>')
FloatOfParts(major, minor) ==
  major * 1000 + (IF minor < 10 THEN minor * 100
                  ELSE IF minor < 100 THEN minor * 10
                  ELSE minor)

\* round(x, 1); no value here is half-way between two tenths
Round1(x) == ((x + 50) \div 100) * 100

\* _extra_os_version of src/simulator_control/simtype_profile.py
ExtraOsVersionRounded(parts) ==
  IF Len(parts) = 1 THEN Round1(parts[1] * 1000)
  ELSE Round1(FloatOfParts(parts[1], parts[2]))

\* _extra_os_version of src/xctestrunner/simulator_control/simtype_profile.py
ExtraOsVersion(parts) ==
  IF parts[1] >= 65535 THEN 999990
  ELSE IF Len(parts) >= 2
    THEN IF parts[2] >= 99 THEN FloatOfParts(parts[1], 99)
         ELSE FloatOfParts(parts[1], parts[2])
  ELSE parts[1] * 1000

ExtraInit ==
  /\ RunnerIdle
  /\ sdk = IPHONESIMULATOR
  /\ DirsIdle
  /\ SimIdle
  /\ CreateIdle
  /\ SimctlIdle
  /\ LogicIdle
  /\ TypeIdle
  /\ OsIdle
  /\ CacheIdle
  /\ PackIdle
  /\ extra_pc = "call"
  /\ extra_rounds \in BOOLEAN
  /\ os_version_str \in ProfileVersionStrs
  /\ requested_minor \in ProfileMinors \ {255}
  /\ extra_os_version = 0

ExtraOsVersionCall ==
  /\ extra_pc = "call"
  /\ extra_os_version' = IF extra_rounds
                           THEN ExtraOsVersionRounded(os_version_str)
                         ELSE ExtraOsVersion(os_version_str)
  /\ extra_pc' = "done"
  /\ UNCHANGED <<extra_rounds, os_version_str, requested_minor>>
  /\ UNCHANGED <<execVars, sessVars, dirsVars, simVars, createVars,
                 simctlVars, logicVars, typeVars, osVars, cacheVars,
                 packVars>>

ExtraNext == ExtraOsVersionCall

SpecProfile == ExtraInit /\ [][ExtraNext]_vars

(***************************************************************************)
(* Claims about _extra_os_version (specification SpecProfile).             *)
(***************************************************************************)
\* the largest OS version a runtime has
LargestRealOsVersion == FloatOfParts(99, 99)

\* C34: x.255.y and x.99.y give x.99; a string with major 65535 gives one
\* value above every real OS version; an ordinary x.y.z gives x.y; and a
\* requested version x.m is not above the value of x.255.255
C34_ProfileVersionNormalised ==
  extra_pc = "done" =>
    LET major == os_version_str[1] IN
      /\ (major < 65535 /\ Len(os_version_str) >= 2
            /\ os_version_str[2] \in {99, 255})
           => extra_os_version = FloatOfParts(major, 99)
      /\ major = 65535 =>
           /\ extra_os_version > LargestRealOsVersion
           /\ extra_os_version =
                (IF extra_rounds THEN ExtraOsVersionRounded(<<65535, 255, 255>>)
                 ELSE ExtraOsVersion(<<65535, 255, 255>>))
      /\ (major < 65535 /\ Len(os_version_str) >= 2
            /\ os_version_str[2] < 99)
           => extra_os_version = FloatOfParts(major, os_version_str[2])
      /\ (major < 65535 /\ os_version_str = <<major, 255, 255>>)
           => FloatOfParts(major, requested_minor) <= extra_os_version

(***************************************************************************)
(* GetXcodeVersionNumber of src/xctestrunner/shared/xcode_info_util.py and *)
(* the directory profile_plist_obj chooses by it (specification SpecPack). *)
(***************************************************************************)
\* the numbers of the versions followed
XcodeMajors == {8, 9, 10, 11, 16}
XcodeMinors == {0, 2, 3, 9, 10}
XcodePatches == {0, 1, 10}

\* xcode_version.split('.'), each part as int() reads it
XcodeVersions ==
  {<<ma>> : ma \in XcodeMajors}
    \cup {<<ma, mi>> : ma \in XcodeMajors, mi \in XcodeMinors}
    \cup {<<ma, mi, pa>> : ma \in XcodeMajors, mi \in XcodeMinors,
                           pa \in XcodePatches}

\* int(parts[0]) * 100, plus int(parts[1]) * 10 and int(parts[2]) when the
\* version has them
XcodeVersionNumber(parts) ==
  parts[1] * 100
    + (IF Len(parts) > 1 THEN parts[2] * 10 ELSE 0)
    + (IF Len(parts) > 2 THEN parts[3] ELSE 0)

\* GetXcodeVersionNumber: the cached number when there is one
VersionNumberReturned(cached, parts) ==
  IF cached # NoVersionNumber THEN cached ELSE XcodeVersionNumber(parts)

\* sim_profiles_dir of profile_plist_obj; platform stands for
\* GetSdkPlatformPath(IPHONEOS)
SimProfilesDir(number) ==
  IF number >= 1630 THEN "/Library/Developer/CoreSimulator/Profiles"
  ELSE IF number >= 1100
    THEN "platform/Library/Developer/CoreSimulator/Profiles"
  ELSE "platform/Developer/Library/CoreSimulator/Profiles"

PackInit ==
  /\ RunnerIdle
  /\ sdk = IPHONESIMULATOR
  /\ DirsIdle
  /\ SimIdle
  /\ CreateIdle
  /\ SimctlIdle
  /\ LogicIdle
  /\ TypeIdle
  /\ OsIdle
  /\ CacheIdle
  /\ ExtraIdle
  /\ pack_pc = "start"
  /\ xcode_version \in XcodeVersions
  /\ cached_version_number = NoVersionNumber
  /\ version_number = NoVersionNumber
  /\ sim_profiles_dir = "none"

packRest == <<execVars, sessVars, dirsVars, simVars, createVars, simctlVars,
              logicVars, typeVars, osVars, cacheVars, extraVars>>

\* a call of GetXcodeVersionNumber; the number is kept in the global
GetXcodeVersionNumber ==
  /\ pack_pc \in {"start", "called"}
  /\ version_number' =
       VersionNumberReturned(cached_version_number, xcode_version)
  /\ cached_version_number' = version_number'
  /\ pack_pc' = "called"
  /\ UNCHANGED <<xcode_version, sim_profiles_dir>>
  /\ UNCHANGED packRest

\* the first read of profile_plist_obj: it calls GetXcodeVersionNumber and
\* chooses the directory of the profiles by the number
ProfilePlistObj ==
  /\ pack_pc \in {"start", "called"}
  /\ version_number' =
       VersionNumberReturned(cached_version_number, xcode_version)
  /\ cached_version_number' = version_number'
  /\ sim_profiles_dir' = SimProfilesDir(version_number')
  /\ pack_pc' = "profile"
  /\ UNCHANGED xcode_version
  /\ UNCHANGED packRest

PackNext == GetXcodeVersionNumber \/ ProfilePlistObj

SpecPack == PackInit /\ [][PackNext]_vars

(***************************************************************************)
(* Claims about the Xcode version number (specification SpecPack).         *)
(***************************************************************************)
\* the k-th number of a version, 0 when the version does not have it
VersionPart(parts, k) == IF Len(parts) >= k THEN parts[k] ELSE 0

\* a is before b in (major, minor, patch) order
VersionPrecedes(a, b) ==
  \/ VersionPart(a, 1) < VersionPart(b, 1)
  \/ /\ VersionPart(a, 1) = VersionPart(b, 1)
     /\ \/ VersionPart(a, 2) < VersionPart(b, 2)
        \/ /\ VersionPart(a, 2) = VersionPart(b, 2)
           /\ VersionPart(a, 3) < VersionPart(b, 3)

LastSimctlRun == simctl_runs[Len(simctl_runs)]

\* C25: the command is run at most twice in one call, and a second time
\* only after a first run that failed with the interruption text in what it
\* wrote
C25_SimctlRunsAtMostTwice ==
  /\ Len(simctl_runs) <= 2
  /\ Len(simctl_runs) = 2 =>
       /\ simctl_runs[1].status # 0
       /\ CORESIMULATOR_INTERRUPTED_ERROR
            \in simctl_runs[1].stdout \cup simctl_runs[1].stderr

\* C25 witness: the call has ended after two runs, the second of which
\* failed with the interruption text again
C25_SecondRunInterruptedToo ==
  /\ simctl_pc = "done"
  /\ Len(simctl_runs) = 2
  /\ simctl_runs[2].status # 0
  /\ CORESIMULATOR_INTERRUPTED_ERROR \in simctl_runs[2].stderr
  /\ simctl_result[1] = "SimError"

\* stdout and stderr of a run, joined
RunJoined(run) ==
  StreamText("stdout", run.stdout) \cup StreamText("stderr", run.stderr)

\* the call has ended on a run that failed
SimctlEndedOnFailedRun ==
  /\ simctl_pc = "done"
  /\ LastSimctlRun.status # 0

\* C26 as stated: output is returned only for a run that exited with 0; a
\* failed run whose output lacks the interruption text is the last run of
\* the call, which raises SimError with stdout and stderr joined; a failed
\* second run raises SimError
C26_SimErrorCarriesJoinedOutput ==
  /\ simctl_pc = "done" /\ simctl_result[1] = "returned" =>
       LastSimctlRun.status = 0
  /\ \A k \in 1..Len(simctl_runs) :
       /\ simctl_runs[k].status # 0
       /\ ~InOutput(CORESIMULATOR_INTERRUPTED_ERROR,
                    RunJoined(simctl_runs[k]))
       => /\ k = Len(simctl_runs)
          /\ simctl_pc = "done"
          /\ simctl_result = <<"SimError", RunJoined(simctl_runs[k])>>
  /\ Len(simctl_runs) = 2 /\ LastSimctlRun.status # 0 =>
       simctl_result[1] = "SimError"

\* the output of a run: stdout alone when stderr holds the relocation text,
\* else stdout and stderr joined
RunCarried(run) ==
  IF CORESIMULATOR_CHANGE_ERROR \in run.stderr
    THEN StreamText("stdout", run.stdout)
    ELSE RunJoined(run)

\* C26 amended: output is returned only for a run that exited with 0, and
\* it is the output of that run; a failed run whose output lacks the
\* interruption text is the last run of the call, and a failed second run
\* is too; a call that ends on a failed run raises SimError with the output
\* of that run, which is stdout and stderr joined, except that it is stdout
\* alone when stderr holds the relocation text
C26_SimErrorCarriesOutput ==
  /\ simctl_pc = "done" /\ simctl_result[1] = "returned" =>
       /\ LastSimctlRun.status = 0
       /\ simctl_result[2] = RunCarried(LastSimctlRun)
  /\ \A k \in 1..Len(simctl_runs) :
       /\ simctl_runs[k].status # 0
       /\ \/ k = SIMCTL_MAX_ATTEMPTS
          \/ ~InOutput(CORESIMULATOR_INTERRUPTED_ERROR,
                       RunCarried(simctl_runs[k]))
       => k = Len(simctl_runs) /\ simctl_pc = "done"
  /\ SimctlEndedOnFailedRun =>
       simctl_result = <<"SimError", RunCarried(LastSimctlRun)>>

\* C26 witness: the only run failed and wrote the relocation text and the
\* interruption text to stderr: SimError carries stdout alone and the
\* command was not run again
C26_RelocationTextDropsStderr ==
  /\ simctl_pc = "done"
  /\ Len(simctl_runs) = 1
  /\ LastSimctlRun.status # 0
  /\ LastSimctlRun.stdout = {"text"}
  /\ {CORESIMULATOR_CHANGE_ERROR, CORESIMULATOR_INTERRUPTED_ERROR}
       \subseteq LastSimctlRun.stderr
  /\ simctl_result = <<"SimError", StreamText("stdout", {"text"})>>

(***************************************************************************)
(* Claims about CreateNewSimulator (specification SpecCreate).             *)
(***************************************************************************)
\* every simulator whose wait window ended without SHUTDOWN is deleted
HalfCreatedAllDeleted ==
  \A k \in 1..Len(new_simulators) :
    new_simulators[k].timed_out => new_simulators[k].deletion = "done"

\* C23: CreateNewSimulator issues at most 3 create commands; it returns only
\* a simulator that was observed in state SHUTDOWN; when a create command is
\* issued every simulator created before it that did not reach SHUTDOWN in
\* its wait window has been deleted; and after the third failed wait it
\* raises SimError with every such simulator deleted
C23_CreateDeletesHalfCreated ==
  /\ [](creates <= SIM_OPERATION_MAX_ATTEMPTS)
  /\ [](create_result = "returned" =>
          /\ new_simulator_id = Len(new_simulators)
          /\ NewSimulator.state = SHUTDOWN
          /\ ~NewSimulator.timed_out)
  /\ [][creates' = creates + 1 => HalfCreatedAllDeleted]_vars
  /\ [](/\ create_pc = "done"
        /\ Len(new_simulators) = SIM_OPERATION_MAX_ATTEMPTS
        /\ NewSimulator.timed_out
        => create_result = "SimError" /\ HalfCreatedAllDeleted)

(***************************************************************************)
(* Claims about Execute, its watchdog and its child (specification Spec).  *)
(***************************************************************************)

\* C1: once the reader has seen the test-started signal and called
\* Terminate(), the watchdog neither sets is_xcodebuild_stuck nor terminates
\* the child.
C1_WatchdogQuietAfterTestStarted ==
  [][(test_started /\ wd_terminate)
       => /\ wd_stuck' = wd_stuck
          /\ ~(process = "running" /\ process' = "terminated")]_vars

\* C4: the watchdog fires only for a child that showed no cancelling signal
\* within the startup timeout, and never for a child that exited by itself
\* within the timeout.
C4_WatchdogFiresOnlyWithoutSignalOrExit ==
  wd_stuck => (~signal_in_time /\ ~exit_in_time)

\* the number of terminal reasons that hold of a finished Execute; a started
\* test that showed neither signal counts as a reason of its own (the
\* unclassified outcome)
TerminalReasons ==
  (IF test_succeeded THEN 1 ELSE 0) + (IF test_failed THEN 1 ELSE 0)
  + (IF test_started /\ ~test_succeeded /\ ~test_failed THEN 1 ELSE 0)
  + (IF decided_by = "rule" THEN 1 ELSE 0) + (IF wd_stuck THEN 1 ELSE 0)

\* C5 as stated: a finished Execute has exactly one terminal reason among
\* succeeded signal seen, failed signal seen, a classification rule decided,
\* the watchdog fired; never two together.
C5_ExactlyOneTerminalReason == pc = "done" => TerminalReasons = 1

\* C5 as amended: a finished Execute has exactly one exit code, produced by
\* the first branch that applies: test started (0 when the succeeded signal
\* was seen, else 11 when the failed signal was seen, else 1), else the
\* watchdog flag read as set (13 on a device, 12 otherwise), else a
\* classification rule (12, 13 or 14).
C5_OneResultByPriority ==
  pc = "done" =>
    /\ decided_by \in {"started", "stuck", "rule"}
    /\ (decided_by = "started") = test_started
    /\ test_started /\ test_succeeded => exit_code = 0
    /\ test_started /\ ~test_succeeded /\ test_failed => exit_code = 11
    /\ test_started /\ ~test_succeeded /\ ~test_failed => exit_code = 1
    /\ decided_by = "stuck" =>
         wd_stuck /\ exit_code = (IF sdk = "iphoneos" THEN 13 ELSE 12)
    /\ decided_by = "rule" => exit_code \in {12, 13, 14}

\* C5 witness: Execute returned with both signals seen
C5_BothSignalsSeen ==
  pc = "done" /\ test_succeeded /\ test_failed /\ exit_code = 0

C2_LaunchesWithinThreeAndTwo ==
  /\ command = "simulator_test" => launches <= 3
  /\ command = "test" /\ sdk = IPHONEOS => launches <= 2

\* C2 as amended: one call of Execute launches the child at most 3 times on a
\* simulator and at most 2 times on a device; simulator_test calls RunTest at
\* most 3 times, so its session launches at most 9 children, and a
\* real-device test session at most 2.
C2_LaunchesWithinNineAndTwo ==
  /\ i < MaxAttemptsFor(sdk)
  /\ attempt < PLANNER_MAX_ATTEMPTS
  /\ command = "simulator_test" =>
       launches <= PLANNER_MAX_ATTEMPTS * SIM_TEST_MAX_ATTEMPTS
  /\ command = "test" /\ sdk = IPHONEOS => launches <= DEVICE_TEST_MAX_ATTEMPTS

\* C2 witness: a simulator_test session that launched nine children
C2_NineLaunches ==
  command = "simulator_test" /\ s_pc = "returned" /\ launches = 9

\* C3: every value returned by Execute/RunTest and by the sub-commands is one
\* of the exit codes 0, 1, 10, 11, 12, 13, 14, 15; no retry loop is left
\* without a result.
C3_ReturnsAreExitCodes ==
  /\ s_pc = "ran" => exit_code \in EXITCODE
  /\ s_pc = "returned" => session_exit \in EXITCODE

\* C3 witness: the last planner attempt used its last relaunch and the
\* sub-command returned
C3_ReturnedAfterLastAttempts ==
  /\ s_pc = "returned"
  /\ command = "simulator_test"
  /\ attempt = PLANNER_MAX_ATTEMPTS - 1
  /\ i = SIM_TEST_MAX_ATTEMPTS - 1
  /\ session_exit = exit_code

\* C7: when simulator_test has returned or raised, every simulator it created
\* has been deleted, and on Xcode before 9 every deleted simulator was shut
\* down first.
C7_CreatedSimulatorsDeleted ==
  s_pc \in {"returned", "raised"} =>
    /\ created \subseteq deleted
    /\ legacy_xcode => deleted \subseteq shut

\* C33: the cleanup of the planner's finally block (Shutdown, Delete) does
\* not raise out of the block: what left the try block takes effect after
\* it, the loop goes on after a continue, the exit code is returned after a
\* return, and an error that was pending goes on
C33_FinallyNeverRaises ==
  [][s_pc = "finally" =>
       /\ pending = "continue" => s_pc' = "loop"
       /\ pending = "return" => s_pc' = "returned" /\ session_exit' = exit_code
       /\ pending = "SimError" =>
            s_pc' = "returned" /\ session_exit' = SIM_ERROR
       /\ pending \notin {"continue", "return", "SimError"} =>
            s_pc' = "raised"]_vars

\* C38: in a simulator_test session the exit code RunTest decided is the
\* code the session returns: SUCCEEDED or FAILED is not replaced by another
\* code because the shutdown or delete of the cleanup failed
C38_TestResultSurvivesCleanup ==
  [][(/\ command = "simulator_test" /\ s_pc = "finally"
      /\ pending = "return" /\ exit_code \in {SUCCEEDED, FAILED})
       => session_exit' = exit_code]_vars

\* the finally block of an attempt that is not the last and returned code
NonFinalAttemptReturned(code) ==
  /\ command = "simulator_test" /\ s_pc = "finally"
  /\ pending = "continue" /\ exit_code = code

\* all three attempts of the planner have returned NEED_RECREATE_SIM: each
\* attempt had a simulator of its own
ThreeAttemptsReturnedRecreate ==
  /\ command = "simulator_test" /\ s_pc = "returned"
  /\ attempt = PLANNER_MAX_ATTEMPTS - 1
  /\ Cardinality(created) = PLANNER_MAX_ATTEMPTS
  /\ exit_code = NEED_RECREATE_SIM

\* C16: after a non-final attempt returned NEED_RECREATE_SIM its simulator is
\* deleted and the loop goes on; the next attempt runs on a simulator that
\* was not created before; after three such attempts the session's exit code
\* is 14 and all three simulators are deleted.
C16_RecreateDeletesAndRenews ==
  /\ [][NonFinalAttemptReturned(NEED_RECREATE_SIM) =>
          simulator_id \in deleted' /\ s_pc' = "loop"]_vars
  /\ [][/\ command = "simulator_test" /\ s_pc = "loop"
        /\ attempt > 0 /\ ~reboot_sim /\ s_pc' = "run"
        => simulator_id' \notin created /\ simulator_id' \notin deleted]_vars
  /\ [](ThreeAttemptsReturnedRecreate =>
          session_exit = NEED_RECREATE_SIM /\ created \subseteq deleted)

\* C17: after a non-final attempt returned NEED_REBOOT_DEVICE its simulator
\* is shut down and not deleted and the loop goes on; no simulator is created
\* for the next attempt, which runs on the same simulator; a last attempt
\* that returned 13 ends the session with 13 and its simulator deleted.
C17_RebootKeepsSimulator ==
  /\ [][NonFinalAttemptReturned(NEED_REBOOT_DEVICE) =>
          /\ simulator_id \in shut' /\ deleted' = deleted
          /\ s_pc' = "loop"]_vars
  /\ [][command = "simulator_test" /\ s_pc = "loop" /\ reboot_sim =>
          /\ created' = created
          /\ s_pc' = "run" => simulator_id' = simulator_id]_vars
  /\ [](/\ command = "simulator_test" /\ s_pc = "returned"
        /\ attempt = PLANNER_MAX_ATTEMPTS - 1
        /\ exit_code = NEED_REBOOT_DEVICE
        => session_exit = NEED_REBOOT_DEVICE /\ simulator_id \in deleted)

\* C18: on a simulator, a relaunch inside Execute goes on to a further launch
\* of the command in the same call, and every step from a relaunch to the
\* end of the launch that follows it leaves the planner's attempt, the
\* simulator in use and the sets of created, shut down and deleted
\* simulators as they were.
C18_RelaunchLeavesSimulator ==
  /\ [][sdk = IPHONESIMULATOR /\ i' = i + 1 =>
          /\ s_pc = "run" /\ s_pc' = "run"
          /\ i' < SIM_TEST_MAX_ATTEMPTS]_vars
  /\ [][/\ sdk = IPHONESIMULATOR /\ s_pc = "run"
        /\ (i > 0 \/ i' > 0) /\ launches' # launches
        => /\ launches' = launches + 1
           /\ UNCHANGED <<attempt, simulator_id, created, shut, deleted>>]_vars

\* C18 witness: the first attempt of simulator_test launched the command
\* twice, and its simulator is the only one created and has been neither
\* shut down nor deleted
C18_TwoLaunchesOneSimulator ==
  /\ command = "simulator_test" /\ s_pc = "ran" /\ attempt = 0
  /\ i = 1 /\ launches = 2
  /\ simulator_id = 1 /\ created = {1} /\ shut = {} /\ deleted = {}

(***************************************************************************)
(* Claims about XctestSession (specification SpecDirs).                    *)
(***************************************************************************)

\* the temporary directories made so far
TempDirsMade == {TempDirs[n] : n \in 1..mkdtemps}

\* C8: after Close, a directory that the caller gave to XctestSession and
\* that has existed still exists, whatever was called before, and no
\* directory the session made itself is left.
C8_CloseKeepsCallerDirs ==
  last_op = "Close" =>
    /\ \A d \in {work_dir_arg, output_dir_arg} \cap existed : d \in dirs
    /\ TempDirsMade \cap dirs = {}

\* C9: a second call of Prepare leaves the session as the first call left
\* it: the same directories and the same marks for what Close removes.
C9_PrepareTwiceAsOnce ==
  streak >= 2 =>
    <<work_dir, delete_work_dir, output_dir, delete_output_dir>> = once

\* C20: Close never raises, whether the directories it would remove exist,
\* are absent or were never made, and a Close that follows a Close leaves the
\* directories on disk and the session's fields as the first one left them.
C20_CloseTwiceAsOnce ==
  /\ [](last_op # "CloseRaised")
  /\ [][closes >= 1 /\ closes' = closes + 1 =>
          /\ dirs' = dirs
          /\ UNCHANGED <<work_dir, delete_work_dir, output_dir,
                         delete_output_dir, prepared>>]_vars

\* C20 witness: Close has been called twice after Prepare made two temporary
\* directories, which the first call removed and the second found absent
C20_SecondCloseFoundNothing ==
  /\ closes = 2 /\ last_op = "Close" /\ prepared
  /\ delete_work_dir /\ work_dir \in TempDirsMade /\ work_dir \notin dirs
  /\ delete_output_dir /\ output_dir \in TempDirsMade
  /\ output_dir \notin dirs

\* C21: RunTest and SetLaunchOptions raise XcodebuildTestError exactly on a
\* session that is not prepared; such a RunTest launches no child and sets
\* no exit code; RunTest on a prepared session launches, raises nothing and
\* returns an exit code, whatever the test did.
C21_RunTestNeedsPrepare ==
  /\ [](last_op \in {"RunTest", "SetLaunchOptions"} =>
          /\ raised \in {"none", "XcodebuildTestError"}
          /\ (raised = "XcodebuildTestError") = ~prepared)
  /\ [][runs' = runs + 1 =>
          IF prepared
            THEN /\ raised' = "none"
                 /\ exit_code' \in EXITCODE
                 /\ launches' > launches
            ELSE /\ raised' = "XcodebuildTestError"
                 /\ launches' = launches
                 /\ exit_code' = exit_code]_vars

\* C21 witness: RunTest has raised XcodebuildTestError without a launch on a
\* session whose Prepare raised after the dummy project had been assigned
C21_RunTestRaisedUnprepared ==
  /\ last_op = "RunTest" /\ raised = "XcodebuildTestError"
  /\ ~prepared /\ dummy_project_obj /\ prepares > 0
  /\ launches = 0 /\ exit_code = NoCode

\* the arguments of the Prepare call that has just ended are one of the four
\* cases listed for IllegalArgumentError
PrepareCalledWithRejectedCase ==
  /\ last_op \in {"Prepare", "PrepareRaised"}
  /\ args # <<>>
  /\ \/ args[1].bundle_missing
     \/ args[1].bundle_bad_ext
     \/ args[1].ui_test_on_old_xcode
     \/ args[1].logic_test_on_device_without_app

C10_GetStateRaisesAfterDelete ==
  sim_deleted /\ sim_op = "GetSimulatorState" =>
    sim_result \in Errors /\ ~log_dir

\* the state that device.plist holds
PersistedState ==
  IF ~plist_exists THEN CREATING
  ELSE IF state_num \in DOMAIN SIMULATOR_STATES_MAPPING
    THEN SIMULATOR_STATES_MAPPING[state_num]
  ELSE UNKNOWN_STATE

\* a step that is a call of Shutdown on an object that has its identity
ShutdownCalled ==
  /\ HasId
  /\ sim_op' = "Shutdown"
  /\ sim_prev' = <<sim_op, sim_result>>

\* C24: Shutdown on a Simulator object that has not been deleted. When
\* device.plist holds state Shutdown it returns without running `simctl
\* shutdown` and leaves the state alone, so a Shutdown that follows a
\* Shutdown that returned returns too and runs no command; when the state is
\* Creating it raises SimError and runs no command; in any other state it
\* returns only after state Shutdown was read from device.plist or reported
\* by the command, with the simulator in state Shutdown
C24_ShutdownIsIdempotent ==
  /\ [][ShutdownCalled =>
          /\ PersistedState = SHUTDOWN =>
               /\ sim_result' = "ok" /\ ~sim_cmd'
               /\ UNCHANGED <<plist_exists, state_num>>
          /\ PersistedState = CREATING =>
               /\ sim_result' = "SimError" /\ ~sim_cmd'
               /\ UNCHANGED <<plist_exists, state_num>>
          /\ PersistedState \notin {SHUTDOWN, CREATING}
               /\ sim_result' = "ok" =>
               /\ sim_cmd' /\ sim_seen' \in {"state", "text"}
               /\ PersistedState' = SHUTDOWN]_vars
  /\ [](/\ HasId /\ sim_op = "Shutdown"
        /\ sim_prev = <<"Shutdown", "ok">>
        => sim_result = "ok" /\ ~sim_cmd)

\* C24 witness: a Shutdown that returned was followed by a Shutdown that
\* found state Shutdown in device.plist and returned without the command
C24_SecondShutdownRanNoCommand ==
  /\ HasId
  /\ sim_prev = <<"Shutdown", "ok">>
  /\ sim_op = "Shutdown" /\ sim_result = "ok"
  /\ ~sim_cmd
  /\ PersistedState = SHUTDOWN

\* GetSimulatorState was the last call, on an object that has its identity
GetSimulatorStateCalled == HasId /\ sim_op = "GetSimulatorState"

C11_WrittenBeforeScanned == scanned <= written

\* C11 as amended: a line is scanned for the signals first and written to
\* stdout next, before another line is read or the reader loop is left: the
\* scanned lines are the written ones, plus the line in hand.
C11_ScannedThenWritten ==
  /\ pc = "write" => scanned = written + 1 /\ stdout_line # "none"
  /\ pc # "write" => scanned = written /\ stdout_line = "none"

\* C11 witness: the line with the test-started signal has set test_started
\* and cancelled the watchdog and is not yet written
C11_StartSignalActedBeforeWrite ==
  /\ pc = "write"
  /\ HasTestStartedSignal(stdout_line)
  /\ test_started /\ wd_terminate
  /\ scanned = 1 /\ written = 0

\* the watchdog result: 13 on a real device, 12 on a simulator
WatchdogResult == IF sdk = IPHONEOS THEN NEED_REBOOT_DEVICE ELSE TEST_NOT_START

\* C35 as stated: whenever the child was terminated by the watchdog, Execute
\* returns the watchdog result; the flag is set before the child is
\* terminated and a watchdog-killed run is never classified by the rules
C35_KilledRunReturnsWatchdogResult ==
  /\ process = "terminated" => wd_stuck
  /\ (pc = "done" /\ process = "terminated") =>
       exit_code = WatchdogResult /\ decided_by # "rule"

\* C35 amended: the flag is set before the child is terminated; a run whose
\* child the watchdog terminated is neither relaunched nor classified by the
\* rules; it returns the watchdog result when the test-started signal was
\* not read, and the result of the started test when it was
C35_KilledRunReturnsWatchdogResultUnlessStarted ==
  /\ process = "terminated" => wd_stuck /\ pc # "launch"
  /\ (pc = "done" /\ process = "terminated") =>
       /\ decided_by # "rule"
       /\ ~test_started => exit_code = WatchdogResult
       /\ test_started => exit_code = StartedResult(test_succeeded, test_failed)

\* a child the watchdog terminated left an error text in the output and the
\* run returned the watchdog result
C35_KilledRunWithErrorTextNotClassified ==
  /\ pc = "done"
  /\ process = "terminated"
  /\ ~test_started
  /\ output # {}
  /\ exit_code = WatchdogResult

\* a line with the test-started signal is in the pipe
SuiteInPipe == \E k \in DOMAIN pipe : HasTestStartedSignal(pipe[k])

\* the child never emits 'Test Suite' and never exits by itself
ChildHangs == [](process # "exited") /\ [](~test_started /\ ~SuiteInPipe)

\* the reader has read 'Running tests...' of a UI test on a simulator and
\* called Terminate(), and goes on reading
RunnerSignalCancelled ==
  /\ sdk = IPHONESIMULATOR /\ test_type = XCUITEST
  /\ pc \in {"read", "write"}
  /\ wd_terminate /\ ~test_started

\* C36 as stated: if the child never emits 'Test Suite' and never exits by
\* itself, Execute eventually returns, for every test type and device kind
C36_HungChildIsTerminated == ChildHangs => <>(pc = "done")

\* C36 amended: ... unless the run is a UI test on a simulator and the reader
\* read 'Running tests...', which cancels the watchdog
C36_HungChildIsTerminatedUnlessCancelled ==
  (ChildHangs /\ []~RunnerSignalCancelled) => <>(pc = "done")

\* a UI test on a simulator whose child wrote lines without a signal and
\* hung was terminated by the watchdog, and Execute returned
C36_HungSimulatorUiTestReturned ==
  /\ sdk = IPHONESIMULATOR /\ test_type = XCUITEST
  /\ pc = "done"
  /\ process = "terminated"
  /\ ~test_started
  /\ emitted > 0
  /\ exit_code = TEST_NOT_START

\* C37: once the test-started signal has been read no further child is
\* launched, and test_started, test_succeeded and test_failed are all false
\* whenever a child is about to be launched
C37_FlagsFalseAtEveryLaunch ==
  /\ [](pc = "launch" => ~test_started /\ ~test_succeeded /\ ~test_failed)
  /\ [][test_started => launches' = launches]_vars

\* the second child of a relaunched run is about to be launched
C37_RelaunchWithFlagsFalse ==
  /\ pc = "launch"
  /\ i = 1
  /\ launches = 1
  /\ ~test_started /\ ~test_succeeded /\ ~test_failed

\* C39: the succeeded and the failed flag are set only by a line read after
\* the line with the first 'Test Suite'; the line that sets test_started
\* sets neither, whatever else it contains, and while test_started is false
\* both are false; a started run with neither flag returns ERROR
C39_SignalsCountedAfterStartLine ==
  /\ [](~test_started => ~test_succeeded /\ ~test_failed)
  /\ [][(~test_started /\ test_started')
          => ~test_succeeded' /\ ~test_failed']_vars
  /\ [][(~test_succeeded /\ test_succeeded')
          => test_started /\ HasSucceededSignal(stdout_line')]_vars
  /\ [][(~test_failed /\ test_failed')
          => test_started /\ HasFailedSignal(stdout_line')]_vars
  /\ [](/\ pc = "done" /\ test_started /\ ~test_succeeded /\ ~test_failed
        => exit_code = ERROR)

\* the first line read carried 'Test Suite' and the succeeded signal: it
\* has been scanned, the test has started and the succeeded flag is not set
C39_SignalOnStartLineNotCounted ==
  /\ pc = "write"
  /\ scanned = 1
  /\ stdout_line = "suite_succ"
  /\ test_started /\ ~test_succeeded /\ ~test_failed

\* C12: once the test has started, Execute returns SUCCEEDED when the
\* succeeded signal was seen, else FAILED when the failed signal was seen,
\* else ERROR; no classification rule, relaunch or watchdog result applies.
C12_StartedRunDecidedBySignals ==
  /\ test_started => pc # "launch"
  /\ pc = "done" /\ test_started =>
       /\ test_succeeded => exit_code = SUCCEEDED
       /\ ~test_succeeded /\ test_failed => exit_code = FAILED
       /\ ~test_succeeded /\ ~test_failed => exit_code = ERROR

\* C12 witness: a started test returned ERROR although the watchdog had
\* fired and an error text of a classification rule had been captured
C12_StartedDespiteStuckAndErrorText ==
  /\ pc = "done" /\ test_started /\ exit_code = ERROR
  /\ wd_stuck /\ output # {}

\* a device run that did not start has been decided
DeviceRunNotStarted == sdk = IPHONEOS /\ pc = "done" /\ ~test_started

\* C14 as stated: on a device the rules apply in the order relaunch texts,
\* too-many-instances text, fired watchdog: a run with a relaunch text on a
\* non-final attempt is relaunched, whatever the watchdog did.
C14_DeviceRulesInListedOrder ==
  DeviceRunNotStarted =>
    /\ "dev_lost" \in output => i = DEVICE_TEST_MAX_ATTEMPTS - 1
    /\ exit_code = IF "dev_toomany" \in output \/ decided_by = "stuck"
                     THEN NEED_REBOOT_DEVICE ELSE TEST_NOT_START

\* C14 as amended: the watchdog flag is tested first and yields 13 with no
\* relaunch; with the flag read as false a relaunch text relaunches on a
\* non-final attempt; otherwise the too-many-instances text yields 13;
\* otherwise the result is 12.  At most 2 launches are made.
C14_DeviceWatchdogThenRules ==
  /\ [](DeviceRunNotStarted =>
          /\ launches <= DEVICE_TEST_MAX_ATTEMPTS
          /\ decided_by = "stuck" => exit_code = NEED_REBOOT_DEVICE
          /\ decided_by = "rule" =>
               /\ "dev_lost" \in output => i = DEVICE_TEST_MAX_ATTEMPTS - 1
               /\ exit_code = IF "dev_toomany" \in output
                                THEN NEED_REBOOT_DEVICE ELSE TEST_NOT_START)
  /\ [][sdk = IPHONEOS /\ ~test_started /\ pc = "decide" /\ pc' # "decide" =>
          (pc' = "launch") = (/\ ~wd_stuck
                              /\ "dev_lost" \in output
                              /\ i < DEVICE_TEST_MAX_ATTEMPTS - 1)]_vars

\* C14 witness: the first attempt on a device showed a relaunch text and was
\* ended by the watchdog: 13 is returned and no relaunch is made
C14_StuckBeatsRelaunchText ==
  /\ DeviceRunNotStarted /\ decided_by = "stuck"
  /\ "dev_lost" \in output /\ i = 0 /\ launches = 1
  /\ exit_code = NEED_REBOOT_DEVICE

\* a simulator run that did not start has been decided
SimRunNotStarted == sdk = IPHONESIMULATOR /\ pc = "done" /\ ~test_started

\* the result of the simulator rules for a run that is not relaunched
SimRuleResult ==
  IF NeedRebootSim(test_type, output) THEN NEED_REBOOT_DEVICE
  ELSE IF NeedRecreateSim(output) THEN NEED_RECREATE_SIM
  ELSE TEST_NOT_START

\* C15 as stated: a simulator run that did not start yields 13 for a UI test
\* with the failed-to-background text, otherwise 14 with a recreate text, and
\* only otherwise comes to the relaunchable rules.
C15_SimRulesInListedOrder == SimRunNotStarted => exit_code = SimRuleResult

\* C15 as amended: the listed order holds for the runs whose watchdog flag is
\* read as false; a run whose flag is read as set yields 12 whatever its
\* output.  A relaunch is made only when the flag is unset, neither the
\* failed-to-background rule nor a recreate text matches and the attempt is
\* not the last, and then the exited-or-crashed and interrupted texts always
\* relaunch.
C15_SimRulesAfterWatchdog ==
  /\ [](SimRunNotStarted =>
          /\ decided_by = "stuck" => exit_code = TEST_NOT_START
          /\ decided_by = "rule" => exit_code = SimRuleResult)
  /\ [][/\ sdk = IPHONESIMULATOR /\ ~test_started
        /\ pc = "decide" /\ pc' # "decide"
        => LET free == /\ ~wd_stuck
                       /\ ~NeedRebootSim(test_type, output)
                       /\ ~NeedRecreateSim(output)
                       /\ i < SIM_TEST_MAX_ATTEMPTS - 1
           IN  /\ pc' = "launch" => free
               /\ free /\ output \cap {"sim_exited", "sim_interrupted"} # {}
                    => pc' = "launch"]_vars

\* C15 witness: a UI test on a simulator printed the failed-to-background
\* text and a relaunchable text on its first attempt, the watchdog flag was
\* read as false, and 13 was returned without a relaunch
C15_RebootRuleBeatsRelaunch ==
  /\ SimRunNotStarted /\ decided_by = "rule" /\ test_type = XCUITEST
  /\ "sim_background" \in output
  /\ output \cap {"sim_exited", "sim_interrupted"} # {}
  /\ i = 0 /\ launches = 1 /\ exit_code = NEED_REBOOT_DEVICE

\* the reader leaves the decision of a first attempt on a simulator whose
\* test did not start and whose output holds the interruption text
FirstAttemptInterrupted ==
  /\ sdk = IPHONESIMULATOR /\ i = 0 /\ ~test_started
  /\ "sim_interrupted" \in output
  /\ pc = "decide" /\ pc' # "decide"

\* a second attempt that followed an interrupted first one has read the
\* 'Test Suite' line and after it the succeeded signal
SecondAttemptSucceeded ==
  /\ sdk = IPHONESIMULATOR /\ pc = "done" /\ i = 1
  /\ relaunched_on = "interrupted"
  /\ test_started /\ test_succeeded

\* C19 as stated: a first attempt on a simulator that did not start and
\* printed the interruption text is followed by a second launch, and a second
\* attempt that starts and succeeds gives exit code 0 with two launches.
C19_InterruptedIsRelaunched ==
  /\ [][FirstAttemptInterrupted => pc' = "launch"]_vars
  /\ [](SecondAttemptSucceeded => exit_code = SUCCEEDED /\ launches = 2)

\* C19 as amended: the second launch is made exactly when the watchdog flag
\* is read as false and neither the failed-to-background rule nor a recreate
\* text matches the output; a second attempt that starts and succeeds gives
\* exit code 0 with two launches.
C19_InterruptedIsRelaunchedUnlessDecided ==
  /\ [][FirstAttemptInterrupted =>
          (pc' = "launch") = (/\ ~wd_stuck
                              /\ ~NeedRebootSim(test_type, output)
                              /\ ~NeedRecreateSim(output))]_vars
  /\ [](SecondAttemptSucceeded => exit_code = SUCCEEDED /\ launches = 2)

\* C19 witness: Execute has returned 0 after two launches, the first of which
\* was relaunched on the interruption text
C19_SecondAttemptReturnsSucceeded ==
  SecondAttemptSucceeded /\ exit_code = SUCCEEDED /\ launches = 2

(***************************************************************************)
(* Further claims about the sub-commands (specification SpecSession).      *)
(***************************************************************************)

\* C13 as stated: the watchdog result is 13 on a device and 12 on a
\* simulator, and a simulator session returns that 12 only after the run was
\* retried, so that the attempts of Execute or of the planner are used up.
C13_StuckRunRetried ==
  s_pc = "returned" /\ decided_by = "stuck" =>
    /\ session_exit = GetResultForXcodebuildStuck(sdk)
    /\ command = "simulator_test" =>
         \/ i = SIM_TEST_MAX_ATTEMPTS - 1
         \/ attempt = PLANNER_MAX_ATTEMPTS - 1

\* C13 as amended: when the test has not started and Execute reads the
\* watchdog flag as set, it returns 13 on a device and 12 on a simulator at
\* once; no launch follows in the session, which returns that code (or
\* SIM_ERROR when Shutdown raises in the finally block).
C13_StuckResultEndsSession ==
  /\ [](decided_by = "stuck" /\ s_pc \in {"ran", "finally", "returned"} =>
          /\ exit_code = GetResultForXcodebuildStuck(sdk)
          /\ s_pc = "returned" => session_exit \in {exit_code, SIM_ERROR})
  /\ [][decided_by = "stuck" => launches' = launches]_vars

\* C13 witness: a simulator session returned 12 after one launch that the
\* watchdog ended
C13_StuckSimulatorSessionOneLaunch ==
  /\ command = "simulator_test" /\ s_pc = "returned"
  /\ decided_by = "stuck" /\ session_exit = TEST_NOT_START
  /\ launches = 1 /\ attempt = 0

=============================================================================
